---- MODULE Spec2Model ----
(***************************************************************************)
(* Discrete modal state-space engine of the GMT finite element model       *)
(* crate: the FEM payload and its group switches, the DiscreteStateSpace   *)
(* builder, and the DiscreteModalSolver with its typed Set/Get accessors.  *)
(*                                                                         *)
(* Numbers.  f64 values are held as integers.  Angular frequencies are in  *)
(* units of pi rad/s (so 2*pi*f is 2*f and f64::to_radians(v) is v/180),   *)
(* time is in ticks of 1/4 s, and the payload's modes-to-outputs entries   *)
(* are multiples of 16 so that every c*b/omega^2 of the model is exact.    *)
(* An Option<T> is a sequence: <<>> is None and <<x>> is Some(x).          *)
(***************************************************************************)
EXTENDS Integers, Sequences, FiniteSets, TLC

VARIABLES
    pc,      \* "fem": the payload is being prepared; "builder"; "solver"; "done"
    fem,     \* the FEM payload (struct FEM)
    dss,     \* the builder (struct DiscreteStateSpace<T>)
    dms,     \* the solver (struct DiscreteModalSolver<T>), meaningful when pc = "solver"
    result,  \* what build() returned (Ok, Err(..) or a panic), or the panic of a later call
    ops      \* calls made so far: [fem |-> .., steps |-> ..], bounded by the guards

vars == <<pc, fem, dss, dms, result, ops>>

-----------------------------------------------------------------------------
(* Bounds of the model *)

\* selections pushed on one side of the builder (ins, or outs + outs_with)
MaxSel == 2
\* solver steps taken after build
MaxSteps == 2
\* keep_* / switch_* calls made on the payload before it is handed to the builder
MaxFemOps == 1

-----------------------------------------------------------------------------
(* Option and sequence helpers *)

None == <<>>
Some(x) == <<x>>
IsSome(o) == Len(o) > 0
IsNone(o) == Len(o) = 0
Unwrap(o) == o[1]

Min(a, b) == IF a <= b THEN a ELSE b

RECURSIVE SumSeq(_)
SumSeq(s) == IF Len(s) = 0 THEN 0 ELSE Head(s) + SumSeq(Tail(s))

RECURSIVE Flatten(_)
Flatten(ss) == IF Len(ss) = 0 THEN <<>> ELSE Head(ss) \o Flatten(Tail(ss))

Zeros(n) == [i \in 1..n |-> 0]

-----------------------------------------------------------------------------
(* Dense matrices (nalgebra::DMatrix): dimensions and rows *)

FromRowSlice(nr, nc, x) ==
    [nr |-> nr, nc |-> nc,
     e |-> [i \in 1..nr |-> [j \in 1..nc |-> x[(i - 1) * nc + j]]]]

FromColumnSlice(nr, nc, x) ==
    [nr |-> nr, nc |-> nc,
     e |-> [i \in 1..nr |-> [j \in 1..nc |-> x[(j - 1) * nr + i]]]]

MatRow(m, i) == m.e[i]
MatColumn(m, j) == [i \in 1..m.nr |-> m.e[i][j]]

\* a * b; the caller checks a.nc = b.nr (nalgebra panics otherwise)
MatMul(a, b) ==
    [nr |-> a.nr, nc |-> b.nc,
     e |-> [i \in 1..a.nr |-> [j \in 1..b.nc |->
              SumSeq([k \in 1..a.nc |-> a.e[i][k] * b.e[k][j]])]]]

MatSub(a, b) ==
    [nr |-> a.nr, nc |-> a.nc,
     e |-> [i \in 1..a.nr |-> [j \in 1..a.nc |-> a.e[i][j] - b.e[i][j]]]]

\* matrix times vector, as a Vec<f64>
MatVec(m, v) ==
    [i \in 1..m.nr |-> SumSeq([k \in 1..m.nc |-> m.e[i][k] * v[k]])]

-----------------------------------------------------------------------------
(* The FEM payload *)

IOOn(i) == [on |-> TRUE, indices |-> <<i>>]

\* fem.inputs / fem.outputs as loaded: one slot per group, every DOF On
LoadedInputs ==
    << Some([variant |-> "OSSAzDriveTorque", io |-> <<IOOn(1)>>]),
       Some([variant |-> "OSSElDriveTorque", io |-> <<IOOn(2)>>]),
       Some([variant |-> "OSSM1Lcl6F",       io |-> <<IOOn(3), IOOn(4)>>]),
       Some([variant |-> "MCM2Lcl6F",        io |-> <<IOOn(5), IOOn(6), IOOn(7)>>]) >>

LoadedOutputs ==
    << Some([variant |-> "OSSAzEncoderAngle", io |-> <<IOOn(1)>>]),
       Some([variant |-> "OSSElEncoderAngle", io |-> <<IOOn(2)>>]),
       Some([variant |-> "OSSM1Lcl",          io |-> <<IOOn(3), IOOn(4)>>]),
       Some([variant |-> "MCM2Lcl6D",         io |-> <<IOOn(5), IOOn(6)>>]) >>

InputVariants == {"OSSAzDriveTorque", "OSSElDriveTorque", "OSSM1Lcl6F", "MCM2Lcl6F"}
OutputVariants == {"OSSAzEncoderAngle", "OSSElEncoderAngle", "OSSM1Lcl", "MCM2Lcl6D"}

\* inputs2ModalF, [n_modes, n_inputs] row wise
LoadedInputs2ModalF ==
    << 1, 0, 2, 1, 0, 1, 2,
       0, 1, 1, 2, 1, 0, 1,
       2, 1, 0, 1, 2, 1, 0,
       1, 2, 1, 0, 1, 2, 1 >>

\* modalDisp2Outputs, [n_outputs, n_modes] row wise
LoadedModalDisp2Outputs ==
    << 16,  0, 32, 16,
        0, 16, 16, 32,
       32, 16,  0, 16,
       16, 32, 16,  0,
       48, 16, 32,  0,
        0, 48, 16, 32 >>

\* gainMatrix, [n_outputs, n_inputs] row wise
LoadedStaticGain ==
    << 11, 12, 13, 14, 15, 16, 17,
       21, 22, 23, 24, 25, 26, 27,
       31, 32, 33, 34, 35, 36, 37,
       41, 42, 43, 44, 45, 46, 47,
       51, 52, 53, 54, 55, 56, 57,
       61, 62, 63, 64, 65, 66, 67 >>

\* eigen frequency vectors [Hz] a payload file may hold
EigenFrequencyVectors == { <<1, 1, 2, 2>>, <<1, 2, 1, 2>> }

LoadedFem(ef, sg) ==
    [inputs |-> LoadedInputs,
     outputs |-> LoadedOutputs,
     eigen_frequencies |-> ef,
     inputs_to_modal_forces |-> LoadedInputs2ModalF,
     modal_disp_to_outputs |-> LoadedModalDisp2Outputs,
     proportional_damping_vec |-> [k \in 1..Len(ef) |-> 1],
     static_gain |-> sg]

n_modes(f) == Len(f.eigen_frequencies)

\* 2*pi*x, in units of pi rad/s
eigen_frequencies_to_radians(f) ==
    [k \in 1..n_modes(f) |-> 2 * f.eigen_frequencies[k]]

\* Inputs::len / Outputs::len: the number of IO that are On
GroupLen(g) == Cardinality({i \in 1..Len(g.io) : g.io[i].on})

PresentSlots(slots) == SelectSeq(slots, IsSome)

n_io_of(slots) ==
    SumSeq([k \in 1..Len(slots) |->
              IF IsSome(slots[k]) THEN GroupLen(Unwrap(slots[k])) ELSE 0])

n_inputs(f) == n_io_of(f.inputs)
n_outputs(f) == n_io_of(f.outputs)

\* FemIo<U>::position as generated: the 0-based index of U among the slots
\* that are Some
PositionIn(present, U) ==
    LET found == {i \in 1..Len(present) : Unwrap(present[i]).variant = U}
    IN IF found = {} THEN None
       ELSE Some((CHOOSE i \in found : \A j \in found : i <= j) - 1)

position(slots, U) == PositionIn(PresentSlots(slots), U)

\* the global indices of all the DOFs of a group, On or Off
OnIndices_All(g) ==
    Flatten([i \in 1..Len(g.io) |-> g.io[i].indices])

\* the global indices of the On DOFs of a group, in the group's order
OnIndices(g) ==
    Flatten([i \in 1..Len(g.io) |-> IF g.io[i].on THEN g.io[i].indices ELSE <<>>])

\* input2modes(id): rows of inputs_to_modal_forces restricted to the On
\* indices of slot id (0-based), row wise; None when the slot is None
InputRows(f, indices, n, ni) ==
    [p \in 1..(n_modes(f) * ni) |->
        f.inputs_to_modal_forces[((p - 1) \div ni) * n + indices[((p - 1) % ni) + 1]]]

input2modes(f, id) ==
    IF IsNone(f.inputs[id + 1]) THEN None
    ELSE Some(InputRows(f, OnIndices(Unwrap(f.inputs[id + 1])),
                        Len(f.inputs_to_modal_forces) \div n_modes(f),
                        GroupLen(Unwrap(f.inputs[id + 1]))))

\* modes2output(id): the rows of modal_disp_to_outputs of the On indices of
\* slot id, row wise; None when the slot is None
OutputRows(f, indices, n) ==
    [p \in 1..(Len(indices) * n) |->
        f.modal_disp_to_outputs[
            (indices[((p - 1) \div n) + 1] - 1) * n + ((p - 1) % n) + 1]]

modes2output(f, id) ==
    IF IsNone(f.outputs[id + 1]) THEN None
    ELSE Some(OutputRows(f, OnIndices(Unwrap(f.outputs[id + 1])), n_modes(f)))

\* in2modes::<U>() / modes2out::<U>(): position, then the slot
InputAt(f, id) == IF IsNone(id) THEN None ELSE input2modes(f, Unwrap(id))
OutputAt(f, id) == IF IsNone(id) THEN None ELSE modes2output(f, Unwrap(id))

in2modes(f, U) == InputAt(f, position(f.inputs, U))
modes2out(f, U) == OutputAt(f, position(f.outputs, U))

\* the columns (rows) of a matrix at 1-based indices
ColumnsAt(matrix, indices) ==
    [nr |-> matrix.nr, nc |-> Len(indices),
     e |-> [i \in 1..matrix.nr |-> [j \in 1..Len(indices) |-> matrix.e[i][indices[j]]]]]
RowsAt(matrix, indices) ==
    [nr |-> Len(indices), nc |-> matrix.nc,
     e |-> [i \in 1..Len(indices) |-> matrix.e[indices[i]]]]

\* trim2input(id, matrix): the columns of matrix at the On indices of slot id
trim2input(f, id, matrix) ==
    IF IsNone(f.inputs[id + 1]) THEN None
    ELSE Some(ColumnsAt(matrix, OnIndices(Unwrap(f.inputs[id + 1]))))

\* trim2output(id, matrix): the rows of matrix at the On indices of slot id
trim2output(f, id, matrix) ==
    IF IsNone(f.outputs[id + 1]) THEN None
    ELSE Some(RowsAt(matrix, OnIndices(Unwrap(f.outputs[id + 1]))))

\* keep_inputs / keep_outputs: every slot whose 0-based index is not in id
\* becomes None
KeepSlots(slots, id) ==
    [k \in 1..Len(slots) |-> IF (k - 1) \in id THEN slots[k] ELSE None]

\* IO::switch_on / IO::switch_off on every IO of a group
SwitchGroup(g, on) ==
    [g EXCEPT !.io = [i \in 1..Len(g.io) |-> [g.io[i] EXCEPT !.on = on]]]

\* switch_inputs / switch_outputs where id = None addresses the first slot only
SwitchSlots_FirstOnly(slots, on, id) ==
    LET ids == IF IsNone(id) THEN {0} ELSE Unwrap(id)
    IN [k \in 1..Len(slots) |->
          IF (k - 1) \in ids /\ IsSome(slots[k])
          THEN Some(SwitchGroup(Unwrap(slots[k]), on))
          ELSE slots[k]]
\* switch_inputs / switch_outputs: id = None addresses every slot, an id out
\* of range or a None slot is skipped
SwitchSlots(slots, on, id) ==
    LET ids == IF IsNone(id) THEN 0..(Len(slots) - 1) ELSE Unwrap(id)
    IN [k \in 1..Len(slots) |->
          IF (k - 1) \in ids /\ IsSome(slots[k])
          THEN Some(SwitchGroup(Unwrap(slots[k]), on))
          ELSE slots[k]]

-----------------------------------------------------------------------------
(* Mode solvers (Exponential and ExponentialMatrix) *)

\* exp(tau*M) whose omega = 0 branch leaves out the factor 0.5 of gamma[0]
ExpM_NoHalf(tau, omega, zeta) ==
    IF omega = 0
    THEN << 1, tau, 0, 1, tau * tau, tau >>
    ELSE LET h == (tau * tau) \div 2
             w2 == omega * omega
         IN << 1 - w2 * h,
               tau - 2 * omega * zeta * h,
               2 * w2 * omega * zeta * h - w2 * tau,
               1 - 2 * omega * zeta * tau + (4 * w2 * zeta * zeta - w2) * h,
               h,
               tau - 2 * omega * zeta * h >>

\* exp(tau*M) of the 3x3 augmented matrix, first two rows, as
\* <<phi00, phi01, phi10, phi11, gamma0, gamma1>>.  For omega = 0 this is the
\* closed form of the code.  For omega # 0 the code's complex diagonalisation
\* is outside integer arithmetic: the series of exp(tau*M) cut after the
\* second-order term stands for it (it is exact when omega = 0).
ExpM(tau, omega, zeta) ==
    IF omega = 0
    THEN << 1, tau, 0, 1, (tau * tau) \div 2, tau >>
    ELSE LET h == (tau * tau) \div 2
             w2 == omega * omega
         IN << 1 - w2 * h,
               tau - 2 * omega * zeta * h,
               2 * w2 * omega * zeta * h - w2 * tau,
               1 - 2 * omega * zeta * tau + (4 * w2 * zeta * zeta - w2) * h,
               h,
               tau - 2 * omega * zeta * h >>

\* Solver::from_second_order, for both solvers: phi (q), gamma (m), b, c,
\* a zero scratch output of the length of c and a zero state
from_second_order(tau, omega, zeta, continuous_bb, continuous_cc) ==
    LET E == ExpM(tau, omega, zeta)
    IN [tau |-> tau,
        phi |-> << E[1], E[2], E[3], E[4] >>,
        gamma |-> << E[5], E[6] >>,
        b |-> continuous_bb,
        c |-> continuous_cc,
        y |-> Zeros(Len(continuous_cc)),
        x |-> << 0, 0 >>]

\* b . u over the common prefix (zip)
Dot(b, u) == SumSeq([i \in 1..Min(Len(b), Len(u)) |-> b[i] * u[i]])

NextX(m, u) ==
    LET v == Dot(m.b, u)
    IN << m.phi[1] * m.x[1] + m.phi[2] * m.x[2] + m.gamma[1] * v,
          m.phi[3] * m.x[1] + m.phi[4] * m.x[2] + m.gamma[2] * v >>

\* self.y.iter_mut().zip(self.c.iter()): y[i] = c[i] * x0 over the common
\* prefix, the rest of y as it was
ScaleOut(m, x0) ==
    [i \in 1..Len(m.y) |-> IF i <= Len(m.c) THEN m.c[i] * x0 ELSE m.y[i]]

\* the standard realisation: output from the current state, then state update
ExponentialMatrix_solve_OutputFirst(m, u) ==
    [m EXCEPT !.y = ScaleOut(m, m.x[1]), !.x = NextX(m, u)]

\* a solve that scales the output by the velocity state x[1]
ExponentialMatrix_solve_Velocity(m, u) ==
    LET x == NextX(m, u)
    IN [m EXCEPT !.x = x, !.y = ScaleOut(m, x[2])]

\* ExponentialMatrix::solve: state update, then output from the new state
ExponentialMatrix_solve(m, u) ==
    LET x == NextX(m, u)
    IN [m EXCEPT !.x = x, !.y = ScaleOut(m, x[1])]

\* a solve that returns the output of the updated state, as the other solver does
Exponential_solve_UpdateFirst(m, u) ==
    LET x == NextX(m, u)
    IN [m EXCEPT !.x = x, !.y = ScaleOut(m, x[1])]

\* Exponential::solve: output from the current state, then state update
Exponential_solve(m, u) ==
    [m EXCEPT !.y = ScaleOut(m, m.x[1]), !.x = NextX(m, u)]

solve(T, m, u) ==
    IF T = "ExponentialMatrix" THEN ExponentialMatrix_solve(m, u)
    ELSE Exponential_solve(m, u)

-----------------------------------------------------------------------------
(* The builder, DiscreteStateSpace<T> *)

RangeDefault == [start |-> 0, end |-> 0]

\* SplitFem::<U>::new()
SplitFem(U) == [U |-> U, range |-> RangeDefault]

\* SetRange::set_range
set_range(io, start, end) == [io EXCEPT !.range = [start |-> start, end |-> end]]

RangeLen(r) == IF r.end > r.start THEN r.end - r.start ELSE 0
RangeSet(r) == r.start .. (r.end - 1)

DefaultBuilder(T, has_fem) ==
    [solver |-> T,
     has_fem |-> has_fem,
     sampling |-> None,
     zeta |-> None,
     eigen_frequencies |-> None,
     max_eigen_frequency |-> None,
     hankel_singular_values_threshold |-> None,
     n_io |-> None,
     ins |-> <<>>,
     outs |-> <<>>,
     outs_transform |-> <<>>]

\* f64::to_radians: v * pi / 180, in units of pi rad/s
to_radians(v) == v \div 180

\* GetIn::get_in / GetOut::get_out for SplitFem<U>
InMatrix(n, x) ==
    IF IsNone(x) THEN None
    ELSE Some(FromRowSlice(n, Len(Unwrap(x)) \div n, Unwrap(x)))
OutMatrix(n, x) ==
    IF IsNone(x) THEN None
    ELSE Some(FromRowSlice(Len(Unwrap(x)) \div n, n, Unwrap(x)))

get_in(f, U) == InMatrix(n_modes(f), in2modes(f, U))
get_out(f, U) == OutMatrix(n_modes(f), modes2out(f, U))

Take(s, n) == SubSeq(s, 1, Min(n, Len(s)))

\* start of the k-th range of the scan: the sum of the earlier lengths
ScanStart(lens, k) == SumSeq(SubSeq(lens, 1, k - 1))

\* the descriptors with the ranges of the scan over the lengths
WithRanges(ios, lens) ==
    [k \in 1..Len(ios) |->
        set_range(ios[k], ScanStart(lens, k), ScanStart(lens, k) + lens[k])]

\* the first n_mode elements of every column (row) of every matrix, chained
ColumnsTaken(mats, n_mode) ==
    Flatten([k \in 1..Len(mats) |->
        Flatten([j \in 1..mats[k].nc |-> Take(MatColumn(mats[k], j), n_mode)])])
RowsTaken(mats, n_mode) ==
    Flatten([k \in 1..Len(mats) |->
        Flatten([i \in 1..mats[k].nr |-> Take(MatRow(mats[k], i), n_mode)])])

\* in2mode(n_mode): [panic, ins (ranges set), mat]
In2ModeOf(ios, n_mode, mats, v) ==
    [panic |-> "",
     ins |-> WithRanges(ios, [k \in 1..Len(mats) |-> mats[k].nc]),
     mat |-> Some(FromColumnSlice(n_mode, Len(v) \div n_mode, v))]

In2ModeGot(ios, n_mode, got) ==
    IF \E k \in 1..Len(got) : IsNone(got[k])
    THEN [panic |-> "unwrap on None", ins |-> ios, mat |-> None]
    ELSE IF n_mode = 0
    THEN [panic |-> "divide by zero", ins |-> ios, mat |-> None]
    ELSE In2ModeOf(ios, n_mode, [k \in 1..Len(got) |-> Unwrap(got[k])],
                   ColumnsTaken([k \in 1..Len(got) |-> Unwrap(got[k])], n_mode))

in2mode(f, d, n_mode) ==
    In2ModeGot(d.ins, n_mode, [k \in 1..Len(d.ins) |-> get_in(f, d.ins[k].U)])

\* mode2out(n_mode): [panic, outs (ranges set), mat]
Mode2OutOf(ios, n_mode, mats, v) ==
    [panic |-> "",
     outs |-> WithRanges(ios, [k \in 1..Len(mats) |-> mats[k].nr]),
     mat |-> Some(FromRowSlice(Len(v) \div n_mode, n_mode, v))]

\* t * x for the groups that have a transform
Transformed(transforms, got) ==
    [k \in 1..Len(got) |->
        IF IsSome(transforms[k]) THEN MatMul(Unwrap(transforms[k]), Unwrap(got[k]))
        ELSE Unwrap(got[k])]

Mode2OutMats(ios, n_mode, mats) ==
    Mode2OutOf(ios, n_mode, mats, RowsTaken(mats, n_mode))

Mode2OutGot(d, n_mode, got) ==
    IF \E k \in 1..Len(got) : IsNone(got[k])
    THEN [panic |-> "unwrap on None", outs |-> d.outs, mat |-> None]
    ELSE IF \E k \in 1..Len(got) :
               IsSome(d.outs_transform[k]) /\ Unwrap(d.outs_transform[k]).nc # Unwrap(got[k]).nr
    THEN [panic |-> "matrix dimensions mismatch", outs |-> d.outs, mat |-> None]
    ELSE IF n_mode = 0
    THEN [panic |-> "divide by zero", outs |-> d.outs, mat |-> None]
    ELSE Mode2OutMats(d.outs, n_mode, Transformed(d.outs_transform, got))

mode2out(f, d, n_mode) ==
    Mode2OutGot(d, n_mode, [k \in 1..Len(d.outs) |-> get_out(f, d.outs[k].U)])

\* the eigen frequencies in rad/s with the overrides (i, v) applied in order;
\* an index past the end is an out-of-bounds panic (OverridesInBounds)
RECURSIVE ApplyOverrides(_, _)
ApplyOverrides(w, list) ==
    IF Len(list) = 0 THEN w
    ELSE ApplyOverrides([w EXCEPT ![Head(list)[1] + 1] = to_radians(Head(list)[2])],
                        Tail(list))

OverridesInBounds(f, d) ==
    IsNone(d.eigen_frequencies)
    \/ \A k \in 1..Len(Unwrap(d.eigen_frequencies)) :
          Unwrap(d.eigen_frequencies)[k][1] < n_modes(f)

\* the number of modes kept by max_eigen_frequency: a count of the FEM eigen
\* frequencies [Hz] at or below it
\* the count with the cut-off frequency itself left out
CountRetained_Below(f, d) ==
    IF IsSome(d.max_eigen_frequency)
    THEN Cardinality({k \in 1..n_modes(f) :
                        f.eigen_frequencies[k] < Unwrap(d.max_eigen_frequency)})
    ELSE n_modes(f)

CountRetained(f, d) ==
    IF IsSome(d.max_eigen_frequency)
    THEN Cardinality({k \in 1..n_modes(f) :
                        f.eigen_frequencies[k] <= Unwrap(d.max_eigen_frequency)})
    ELSE n_modes(f)

\* properties(): (w, n_modes, zeta)
PropertiesOf(f, d, n) ==
    [w |-> IF IsSome(d.eigen_frequencies)
           THEN ApplyOverrides(eigen_frequencies_to_radians(f), Unwrap(d.eigen_frequencies))
           ELSE eigen_frequencies_to_radians(f),
     n_modes |-> n,
     zeta |-> IF IsSome(d.zeta) THEN [k \in 1..n |-> Unwrap(d.zeta)]
              ELSE f.proportional_damping_vec]

properties(f, d) == PropertiesOf(f, d, CountRetained(f, d))

\* hankel_singular_value(w, z, b, c) > hsv_t, with
\* hsv = 0.25 * |b| * |c| / (w * z): the square roots are removed by squaring
\* both (non-negative) sides; x/0 is +inf for x > 0 and 0/0 is NaN, and a
\* comparison with NaN is false
NormSq(x) == SumSeq([i \in 1..Len(x) |-> x[i] * x[i]])
HsvExceeds(w, z, b, c, hsv_t) ==
    LET p == NormSq(b) * NormSq(c)
        wz == w * z
    IN IF wz = 0 THEN p > 0
       ELSE IF hsv_t < 0 THEN TRUE
       ELSE p > 16 * hsv_t * hsv_t * wz * wz

\* the range of the first descriptor of type U, as an Option
RangeOf(ios, U) ==
    LET found == {i \in 1..Len(ios) : ios[i].U = U}
    IN IF found = {} THEN None
       ELSE Some(ios[CHOOSE i \in found : \A j \in found : i <= j].range)

\* the indices of the ranges found, chained
RangeIndices(ranges) ==
    UNION {RangeSet(Unwrap(ranges[k])) : k \in {i \in 1..Len(ranges) : IsSome(ranges[i])}}

\* the slot ids of the descriptors (position), and the On indices of their
\* slots: None when there is no position or the slot is None
IoIds(slots, ios) == [k \in 1..Len(ios) |-> position(slots, ios[k].U)]
SlotIndices(slots, id) ==
    IF IsNone(id) THEN None
    ELSE IF IsNone(slots[Unwrap(id) + 1]) THEN None
    ELSE Some(OnIndices(Unwrap(slots[Unwrap(id) + 1])))
IoIndices(slots, ids) == [k \in 1..Len(ids) |-> SlotIndices(slots, ids[k])]
Chained(idx) == Flatten([k \in 1..Len(idx) |-> IF IsNone(idx[k]) THEN <<>> ELSE Unwrap(idx[k])])

\* the row blocks of reduce2io: trim_out of m, times the transform if any;
\* a transform on a group without rows is dropped
RowBlocks(transforms, m, outIdx) ==
    Flatten([k \in 1..Len(outIdx) |->
        IF IsNone(outIdx[k]) THEN <<>>
        ELSE IF IsSome(transforms[k])
        THEN MatMul(Unwrap(transforms[k]), RowsAt(m, Unwrap(outIdx[k]))).e
        ELSE RowsAt(m, Unwrap(outIdx[k])).e])

Reduce2IoRows(nc, rows) ==
    IF Len(rows) = 0
    THEN [panic |-> "At least one row must be given", mat |-> None]
    ELSE [panic |-> "", mat |-> Some([nr |-> Len(rows), nc |-> nc, e |-> rows])]

Reduce2IoOut(f, d, m, outId, outIdx) ==
    IF \E k \in 1..Len(outId) : IsSome(outId[k]) /\ m.nr # n_outputs(f)
    THEN [panic |-> "Matrix rows # do not match outputs #", mat |-> None]
    ELSE IF \E k \in 1..Len(outIdx) : IsSome(outIdx[k]) /\ Len(Unwrap(outIdx[k])) = 0
    THEN [panic |-> "At least one row must be given", mat |-> None]
    ELSE IF \E k \in 1..Len(outIdx) : IsSome(outIdx[k])
               /\ \E i \in 1..Len(Unwrap(outIdx[k])) : Unwrap(outIdx[k])[i] > m.nr
    THEN [panic |-> "Matrix index out of bounds", mat |-> None]
    ELSE IF \E k \in 1..Len(outIdx) : IsSome(outIdx[k]) /\ IsSome(d.outs_transform[k])
               /\ Unwrap(d.outs_transform[k]).nc # Len(Unwrap(outIdx[k]))
    THEN [panic |-> "matrix dimensions mismatch", mat |-> None]
    ELSE Reduce2IoRows(m.nc, RowBlocks(d.outs_transform, m, outIdx))

Reduce2IoCols(f, d, matrix, cols, outId) ==
    IF \E j \in 1..Len(cols) : cols[j] > matrix.nc
    THEN [panic |-> "Matrix index out of bounds", mat |-> None]
    ELSE IF Len(cols) = 0
    THEN [panic |-> "At least one column must be given", mat |-> None]
    ELSE Reduce2IoOut(f, d, ColumnsAt(matrix, cols), outId, IoIndices(f.outputs, outId))

Reduce2IoIn(f, d, matrix, inIdx) ==
    IF \E k \in 1..Len(inIdx) : IsSome(inIdx[k]) /\ Len(Unwrap(inIdx[k])) = 0
    THEN [panic |-> "At least one column must be given", mat |-> None]
    ELSE Reduce2IoCols(f, d, matrix, Chained(inIdx), IoIds(f.outputs, d.outs))

\* reduce2io(matrix): the FEM gain matrix trimmed to the selected inputs
\* (columns) and outputs (rows): [panic, mat]
reduce2io(f, d, matrix) ==
    Reduce2IoIn(f, d, matrix, IoIndices(f.inputs, IoIds(f.inputs, d.ins)))

\* the first modes left out of the dynamic static gain (skip(3), remove_columns(0, 3))
RigidBodyModes == 3

\* modes_2_nodes.remove_columns(0, 3) * diag(1 / w^2) * forces_2_modes.remove_rows(0, 3)
dyn_static_gain(modes_2_nodes, w, n, forces_2_modes) ==
    [nr |-> modes_2_nodes.nr, nc |-> forces_2_modes.nc,
     e |-> [j \in 1..modes_2_nodes.nr |-> [i \in 1..forces_2_modes.nc |->
              SumSeq([k \in 1..(n - RigidBodyModes) |->
                  (modes_2_nodes.e[j][k + RigidBodyModes]
                     * forces_2_modes.e[k + RigidBodyModes][i])
                  \div (w[k + RigidBodyModes] * w[k + RigidBodyModes])])]]]

\* the elements (j, i) of psi_dcg with i in a drive torque range and j in an
\* encoder angle range set to zero
\* the zeroing restricted to the drive torque and the encoder angle of the
\* same axis
ZeroDriveEncoder_SameAxis(psi, ins, outs) ==
    LET pairs == { << RangeIndices(<< RangeOf(ins, "OSSAzDriveTorque") >>),
                      RangeIndices(<< RangeOf(outs, "OSSAzEncoderAngle") >>) >>,
                   << RangeIndices(<< RangeOf(ins, "OSSElDriveTorque") >>),
                      RangeIndices(<< RangeOf(outs, "OSSElEncoderAngle") >>) >>,
                   << RangeIndices(<< RangeOf(ins, "OSSRotDriveTorque") >>),
                      RangeIndices(<< RangeOf(outs, "OSSRotEncoderAngle") >>) >> }
    IN [psi EXCEPT !.e = [j \in 1..psi.nr |-> [i \in 1..psi.nc |->
            IF \E q \in pairs : (i - 1) \in q[1] /\ (j - 1) \in q[2]
            THEN 0 ELSE psi.e[j][i]]]]
ZeroDriveEncoder(psi, ins, outs) ==
    LET torque_indices == RangeIndices(<< RangeOf(ins, "OSSAzDriveTorque"),
                                          RangeOf(ins, "OSSElDriveTorque"),
                                          RangeOf(ins, "OSSRotDriveTorque") >>)
        enc_indices == RangeIndices(<< RangeOf(outs, "OSSAzEncoderAngle"),
                                       RangeOf(outs, "OSSElEncoderAngle"),
                                       RangeOf(outs, "OSSRotEncoderAngle") >>)
    IN [psi EXCEPT !.e = [j \in 1..psi.nr |-> [i \in 1..psi.nc |->
            IF (i - 1) \in torque_indices /\ (j - 1) \in enc_indices
            THEN 0 ELSE psi.e[j][i]]]]

\* the static gain compensation of build(): [panic, psi]
PsiSub(ins, outs, sg, dsg) ==
    IF sg.nr # dsg.nr \/ sg.nc # dsg.nc
    THEN [panic |-> "matrix dimensions mismatch", psi |-> None]
    ELSE [panic |-> "", psi |-> Some(ZeroDriveEncoder(MatSub(sg, dsg), ins, outs))]

PsiReduced(ins, outs, forces_2_modes, modes_2_nodes, w, n, sg) ==
    IF sg.panic # ""
    THEN [panic |-> sg.panic, psi |-> None]
    ELSE IF n < RigidBodyModes
    THEN [panic |-> "attempt to subtract with overflow", psi |-> None]
    ELSE PsiSub(ins, outs, Unwrap(sg.mat),
                dyn_static_gain(modes_2_nodes, w, n, forces_2_modes))

psi_of(f, d, ins, outs, forces_2_modes, modes_2_nodes, w, n) ==
    IF IsNone(f.static_gain)
    THEN [panic |-> "unwrap on None", psi |-> None]
    ELSE IF Len(Unwrap(f.static_gain)) # Unwrap(d.n_io)[1] * Unwrap(d.n_io)[2]
    THEN [panic |-> "Matrix init. error", psi |-> None]
    ELSE PsiReduced(ins, outs, forces_2_modes, modes_2_nodes, w, n,
                    reduce2io(f, d, FromRowSlice(Unwrap(d.n_io)[2], Unwrap(d.n_io)[1],
                                                 Unwrap(f.static_gain))))

\* the mode bank: modes 0..n_modes in order, those at or below the Hankel
\* singular value threshold left out
KeptModes(d, forces_2_modes, modes_2_nodes, w, zeta, n) ==
    SelectSeq([k \in 1..n |-> k],
              LAMBDA k : IsNone(d.hankel_singular_values_threshold)
                         \/ HsvExceeds(w[k], zeta[k], MatRow(forces_2_modes, k),
                                       MatColumn(modes_2_nodes, k),
                                       Unwrap(d.hankel_singular_values_threshold)))

ModeBank(tau, forces_2_modes, modes_2_nodes, w, zeta, ks) ==
    [i \in 1..Len(ks) |->
        from_second_order(tau, w[ks[i]], zeta[ks[i]],
                          MatRow(forces_2_modes, ks[i]), MatColumn(modes_2_nodes, ks[i]))]

state_space_of(d, tau, forces_2_modes, modes_2_nodes, w, zeta, n) ==
    ModeBank(tau, forces_2_modes, modes_2_nodes, w, zeta,
             KeptModes(d, forces_2_modes, modes_2_nodes, w, zeta, n))

\* tau = 1 / sampling, in ticks of 1/4 s
Tau(sampling) == 4 \div sampling

DefaultSolver ==
    [solver |-> "", u |-> <<>>, y |-> <<>>, y_sizes |-> <<>>, state_space |-> <<>>,
     psi_dcg |-> None, psi_times_u |-> <<>>, ins |-> <<>>, outs |-> <<>>]

BuildErr(variant, arg) ==
    [kind |-> "Err", error |-> <<variant, arg>>, panic |-> "", dms |-> DefaultSolver]
BuildPanic(msg) ==
    [kind |-> "panic", error |-> <<>>, panic |-> msg, dms |-> DefaultSolver]
BuildOk(solver) ==
    [kind |-> "Ok", error |-> <<>>, panic |-> "", dms |-> solver]

\* DiscreteStateSpace::build
BuildSolver(d, tau, p, ins, outs, forces_2_modes, modes_2_nodes, psi) ==
    IF psi.panic # "" THEN BuildPanic(psi.panic)
    ELSE BuildOk(
           [solver |-> d.solver,
            u |-> Zeros(forces_2_modes.nc),
            y |-> Zeros(modes_2_nodes.nr),
            y_sizes |-> <<>>,
            state_space |-> state_space_of(d, tau, forces_2_modes, modes_2_nodes,
                                           p.w, p.zeta, p.n_modes),
            psi_dcg |-> psi.psi,
            psi_times_u |-> <<>>,
            ins |-> ins,
            outs |-> outs])

BuildIo(f, d, tau, p, i2m, m2o) ==
    IF i2m.panic # "" THEN BuildPanic(i2m.panic)
    ELSE IF m2o.panic # "" THEN BuildPanic(m2o.panic)
    ELSE BuildSolver(d, tau, p, i2m.ins, m2o.outs, Unwrap(i2m.mat), Unwrap(m2o.mat),
                     IF IsSome(d.n_io)
                     THEN psi_of(f, d, i2m.ins, m2o.outs, Unwrap(i2m.mat), Unwrap(m2o.mat),
                                 p.w, p.n_modes)
                     ELSE [panic |-> "", psi |-> None])

BuildWith(f, d, tau, p) ==
    BuildIo(f, d, tau, p, in2mode(f, d, p.n_modes), mode2out(f, d, p.n_modes))

\* build with a default sampling rate in place of the error
build_DefaultSampling(f, d) ==
    IF ~d.has_fem THEN BuildErr("MissingArguments", "FEM")
    ELSE IF ~OverridesInBounds(f, d) THEN BuildPanic("index out of bounds")
    ELSE BuildWith(f, d, Tau(IF IsNone(d.sampling) THEN 2 ELSE Unwrap(d.sampling)),
                   properties(f, d))

build(f, d) ==
    IF IsNone(d.sampling) THEN BuildErr("MissingArguments", "sampling")
    ELSE IF ~d.has_fem THEN BuildErr("MissingArguments", "FEM")
    ELSE IF ~OverridesInBounds(f, d) THEN BuildPanic("index out of bounds")
    ELSE BuildWith(f, d, Tau(Unwrap(d.sampling)), properties(f, d))

-----------------------------------------------------------------------------
(* The solver, DiscreteModalSolver<T> *)

\* the fold / reduce over the mode bank: n zeros plus, mode by mode, the
\* mode's output over the common prefix (zip)
RECURSIVE FoldModes(_, _)
FoldModes(acc, ys) ==
    IF Len(ys) = 0 THEN acc
    ELSE FoldModes([i \in 1..Len(acc) |->
                      IF i <= Len(Head(ys)) THEN acc[i] + Head(ys)[i] ELSE acc[i]],
                   Tail(ys))

\* Iterator::next for DiscreteModalSolver<Exponential> and <ExponentialMatrix>:
\* every mode is stepped with u and the outputs are summed into n = |y|
\* zeros; with psi (ExponentialMatrix only) y is then zipped with
\* psi_times_u, which cuts it to the shorter of the two, and psi * u is stored
ModeSum(n, modes) == FoldModes(Zeros(n), [k \in 1..Len(modes) |-> modes[k].y])

ZipAdd(y, p) == [i \in 1..Min(Len(y), Len(p)) |-> y[i] + p[i]]

\* a step that consumes u: u is cleared once the modes were stepped
NextOf_ConsumesU(s, modes) ==
    IF s.solver = "ExponentialMatrix" /\ IsSome(s.psi_dcg)
    THEN [s EXCEPT !.state_space = modes,
                   !.y = ZipAdd(ModeSum(Len(s.y), modes), s.psi_times_u),
                   !.psi_times_u = MatVec(Unwrap(s.psi_dcg), s.u),
                   !.u = Zeros(Len(s.u))]
    ELSE [s EXCEPT !.state_space = modes, !.y = ModeSum(Len(s.y), modes),
                   !.u = Zeros(Len(s.u))]
NextOf(s, modes) ==
    IF s.solver = "ExponentialMatrix" /\ IsSome(s.psi_dcg)
    THEN [s EXCEPT !.state_space = modes,
                   !.y = ZipAdd(ModeSum(Len(s.y), modes), s.psi_times_u),
                   !.psi_times_u = MatVec(Unwrap(s.psi_dcg), s.u)]
    ELSE [s EXCEPT !.state_space = modes, !.y = ModeSum(Len(s.y), modes)]

\* a step that drops the compensation matrix
next_DropsPsi(s) ==
    [NextOf(s, [k \in 1..Len(s.state_space) |-> solve(s.solver, s.state_space[k], s.u)])
        EXCEPT !.psi_dcg = None]
next(s) ==
    NextOf(s, [k \in 1..Len(s.state_space) |-> solve(s.solver, s.state_space[k], s.u)])

\* Get<U>::get: [panic, value]; value is None when no output descriptor has type U
Get(s, U) ==
    LET r == RangeOf(s.outs, U)
    IN IF IsNone(r) THEN [panic |-> FALSE, value |-> None]
       ELSE IF Unwrap(r).end > Len(s.y)
       THEN [panic |-> TRUE, value |-> None]
       ELSE [panic |-> FALSE,
             value |-> Some(SubSeq(s.y, Unwrap(r).start + 1, Unwrap(r).end))]

\* Set<U>::set: copy_from_slice panics when the lengths differ
SetPanics(s, U, v) ==
    LET r == RangeOf(s.ins, U)
    IN IsSome(r) /\ (Unwrap(r).end > Len(s.u) \/ RangeLen(Unwrap(r)) # Len(v))

\* Set with the slice written at the head of u
Set_AtHead(s, U, v) ==
    LET r == RangeOf(s.ins, U)
    IN IF IsNone(r) THEN s
       ELSE [s EXCEPT !.u = [i \in 1..Len(s.u) |-> IF i <= Len(v) THEN v[i] ELSE s.u[i]]]

Set(s, U, v) ==
    LET r == RangeOf(s.ins, U)
    IN IF IsNone(r) THEN s
       ELSE [s EXCEPT !.u = [i \in 1..Len(s.u) |->
                               IF (i - 1) \in RangeSet(Unwrap(r))
                               THEN v[i - Unwrap(r).start] ELSE s.u[i]]]

-----------------------------------------------------------------------------
(* State: pc is "fem" while the program holds the FEM, "builder" once the FEM
   was moved into DiscreteStateSpace::from, "solver" after a successful
   build and "done" after an error or a panic; fem is the FEM, dss the
   builder, dms the solver, result the outcome of build (or the panic of a
   later call) and ops counts the FEM operations and the steps taken. *)

NoResult == [kind |-> "", error |-> <<>>, panic |-> ""]

InitWith(efs, sgs) ==
    /\ pc = "fem"
    /\ fem \in {LoadedFem(ef, sg) : ef \in efs, sg \in sgs}
    /\ dss = DefaultBuilder("", FALSE)
    /\ dms = DefaultSolver
    /\ result = NoResult
    /\ ops = [fem |-> 0, steps |-> 0]

\* FEM::keep_inputs(id)
KeepInputs(id) ==
    /\ pc = "fem" /\ ops.fem < MaxFemOps
    /\ fem' = [fem EXCEPT !.inputs = KeepSlots(fem.inputs, id)]
    /\ ops' = [ops EXCEPT !.fem = @ + 1]
    /\ UNCHANGED <<pc, dss, dms, result>>

\* FEM::keep_outputs(id)
KeepOutputs(id) ==
    /\ pc = "fem" /\ ops.fem < MaxFemOps
    /\ fem' = [fem EXCEPT !.outputs = KeepSlots(fem.outputs, id)]
    /\ ops' = [ops EXCEPT !.fem = @ + 1]
    /\ UNCHANGED <<pc, dss, dms, result>>

\* FEM::switch_inputs(switch, id)
SwitchInputs(on, id) ==
    /\ pc = "fem" /\ ops.fem < MaxFemOps
    /\ fem' = [fem EXCEPT !.inputs = SwitchSlots(fem.inputs, on, id)]
    /\ ops' = [ops EXCEPT !.fem = @ + 1]
    /\ UNCHANGED <<pc, dss, dms, result>>

\* FEM::switch_outputs(switch, id)
SwitchOutputs(on, id) ==
    /\ pc = "fem" /\ ops.fem < MaxFemOps
    /\ fem' = [fem EXCEPT !.outputs = SwitchSlots(fem.outputs, on, id)]
    /\ ops' = [ops EXCEPT !.fem = @ + 1]
    /\ UNCHANGED <<pc, dss, dms, result>>

\* DiscreteStateSpace::<T>::from(fem)
From(T) ==
    /\ pc = "fem"
    /\ pc' = "builder"
    /\ dss' = DefaultBuilder(T, TRUE)
    /\ UNCHANGED <<fem, dms, result, ops>>

Sampling(sampling) ==
    /\ pc = "builder"
    /\ dss' = [dss EXCEPT !.sampling = Some(sampling)]
    /\ UNCHANGED <<pc, fem, dms, result, ops>>

ProportionalDamping(zeta) ==
    /\ pc = "builder"
    /\ dss' = [dss EXCEPT !.zeta = Some(zeta)]
    /\ UNCHANGED <<pc, fem, dms, result, ops>>

UseStaticGainCompensation(n_io) ==
    /\ pc = "builder"
    /\ dss' = [dss EXCEPT !.n_io = Some(n_io)]
    /\ UNCHANGED <<pc, fem, dms, result, ops>>

EigenFrequencies(eigen_frequencies) ==
    /\ pc = "builder"
    /\ dss' = [dss EXCEPT !.eigen_frequencies = Some(eigen_frequencies)]
    /\ UNCHANGED <<pc, fem, dms, result, ops>>

MaxEigenFrequency(max_eigen_frequency) ==
    /\ pc = "builder"
    /\ dss' = [dss EXCEPT !.max_eigen_frequency = Some(max_eigen_frequency)]
    /\ UNCHANGED <<pc, fem, dms, result, ops>>

TruncateHankelSingularValues(hankel_singular_values_threshold) ==
    /\ pc = "builder"
    /\ dss' = [dss EXCEPT !.hankel_singular_values_threshold =
                             Some(hankel_singular_values_threshold)]
    /\ UNCHANGED <<pc, fem, dms, result, ops>>

\* ins::<U>()
Ins(U) ==
    /\ pc = "builder" /\ Len(dss.ins) < MaxSel
    /\ dss' = [dss EXCEPT !.ins = Append(@, SplitFem(U))]
    /\ UNCHANGED <<pc, fem, dms, result, ops>>

\* outs::<U>()
Outs(U) ==
    /\ pc = "builder" /\ Len(dss.outs) < MaxSel
    /\ dss' = [dss EXCEPT !.outs = Append(@, SplitFem(U)),
                          !.outs_transform = Append(@, None)]
    /\ UNCHANGED <<pc, fem, dms, result, ops>>

\* outs_with::<U>(transform)
OutsWith(U, transform) ==
    /\ pc = "builder" /\ Len(dss.outs) < MaxSel
    /\ dss' = [dss EXCEPT !.outs = Append(@, SplitFem(U)),
                          !.outs_transform = Append(@, Some(transform))]
    /\ UNCHANGED <<pc, fem, dms, result, ops>>

\* build(): the solver on Ok, the error or the panic otherwise
Build ==
    /\ pc = "builder"
    /\ LET r == build(fem, dss)
       IN /\ pc' = IF r.kind = "Ok" THEN "solver" ELSE "done"
          /\ dms' = r.dms
          /\ result' = [kind |-> r.kind, error |-> r.error, panic |-> r.panic]
    /\ UNCHANGED <<fem, dss, ops>>

\* solver.set::<U>(v)
SetU(U, v) ==
    /\ pc = "solver"
    /\ IF SetPanics(dms, U, v)
       THEN /\ pc' = "done"
            /\ result' = [kind |-> "panic", error |-> <<>>,
                          panic |-> "source slice length does not match destination"]
            /\ dms' = dms
       ELSE /\ dms' = Set(dms, U, v)
            /\ UNCHANGED <<pc, result>>
    /\ UNCHANGED <<fem, dss, ops>>

\* solver.next()
Step ==
    /\ pc = "solver" /\ ops.steps < MaxSteps
    /\ dms' = next(dms)
    /\ ops' = [ops EXCEPT !.steps = @ + 1]
    /\ UNCHANGED <<pc, fem, dss, result>>

-----------------------------------------------------------------------------
(* Inputs of the operations *)

Solvers == {"Exponential", "ExponentialMatrix"}

\* the sampling rates [Hz]: tau is 2 ticks
SamplingRates == {2}

\* (n_inputs, n_outputs) of the FEM as loaded
LoadedNIo == << n_io_of(LoadedInputs), n_io_of(LoadedOutputs) >>

\* keep_* id lists: all slots, or all but one
KeepIds == {(0..3) \ {k} : k \in 0..3} \cup {0..3}

\* switch_* id arguments: None, or one slot (4 is past the end)
SwitchIds == {None} \cup {Some({k}) : k \in 0..4}

\* a 1 x 2 and a 2 x 2 transform for outs_with
Transforms == { [nr |-> 1, nc |-> 2, e |-> << <<1, 1>> >>],
                [nr |-> 2, nc |-> 2, e |-> << <<0, 1>>, <<1, 0>> >>] }

\* the values written by set
Payloads == { <<10, 20>>, <<1, 2, 3>> }

\* eigen frequency overrides (index, value) and cut-off frequencies [Hz]
Overrides == { << <<0, 0>> >>, << <<1, 360>> >> }
MaxEigenFrequencies == {0, 1, 2}
HsvThresholds == {0, 8}

-----------------------------------------------------------------------------
(* Selection: FEM operations, then a builder with input and output groups *)

InitSelect == InitWith({<<1, 1, 2, 2>>}, {None})

NextSelect ==
    \/ \E id \in KeepIds : KeepInputs(id)
    \/ \E id \in KeepIds : KeepOutputs(id)
    \/ \E on \in BOOLEAN, id \in SwitchIds : SwitchInputs(on, id)
    \/ \E on \in BOOLEAN, id \in SwitchIds : SwitchOutputs(on, id)
    \/ From("ExponentialMatrix")
    \/ \E r \in SamplingRates : Sampling(r)
    \/ \E U \in {"OSSAzDriveTorque", "OSSM1Lcl6F", "MCM2Lcl6F", "OSSRotDriveTorque"} : Ins(U)
    \/ \E U \in {"OSSAzEncoderAngle", "OSSM1Lcl", "MCM2Lcl6D"} : Outs(U)
    \/ \E T \in Transforms : OutsWith("MCM2Lcl6D", T)
    \/ Build

SpecSelect == InitSelect /\ [][NextSelect]_vars

-----------------------------------------------------------------------------
(* Options: the builder's options on the FEM as loaded *)

InitOptions == InitWith(EigenFrequencyVectors, {None, Some(LoadedStaticGain)})

NextOptions ==
    \/ \E T \in Solvers : From(T)
    \/ \E r \in SamplingRates : Sampling(r)
    \/ ProportionalDamping(1)
    \/ UseStaticGainCompensation(LoadedNIo)
    \/ \E l \in Overrides : EigenFrequencies(l)
    \/ \E m \in MaxEigenFrequencies : MaxEigenFrequency(m)
    \/ \E t \in HsvThresholds : TruncateHankelSingularValues(t)
    \/ Ins("OSSM1Lcl6F")
    \/ Outs("OSSM1Lcl")
    \/ Build

SpecOptions == InitOptions /\ [][NextOptions]_vars

-----------------------------------------------------------------------------
(* Run: a solver is built and driven with set and next *)

InitRun == InitWith({<<1, 1, 2, 2>>}, {Some(LoadedStaticGain)})

NextRun ==
    \/ \E T \in Solvers : From(T)
    \/ \E r \in SamplingRates : Sampling(r)
    \/ UseStaticGainCompensation(LoadedNIo)
    \/ \E U \in {"OSSM1Lcl6F", "MCM2Lcl6F"} : Ins(U)
    \/ \E U \in {"OSSM1Lcl", "MCM2Lcl6D"} : Outs(U)
    \/ Build
    \/ \E U \in {"OSSAzDriveTorque", "OSSM1Lcl6F", "MCM2Lcl6F"}, v \in Payloads : SetU(U, v)
    \/ Step

SpecRun == InitRun /\ [][NextRun]_vars

-----------------------------------------------------------------------------
(* Sizes and ranges of the built solver (C1, C2) *)

\* the On DOFs of the group of type U in the FEM: those of U's own slot
OwnDofs(slots, U) ==
    SumSeq([k \in 1..Len(slots) |->
              IF IsSome(slots[k]) /\ Unwrap(slots[k]).variant = U
              THEN GroupLen(Unwrap(slots[k])) ELSE 0])

SelectedDofs(slots, ios) == SumSeq([k \in 1..Len(ios) |-> OwnDofs(slots, ios[k].U)])

\* the k-th descriptor has the range [sum of the earlier DOF counts, that sum
\* + its own DOF count)
DeclarationOrderRanges(slots, ios) ==
    \A k \in 1..Len(ios) :
        /\ ios[k].range.start = SelectedDofs(slots, SubSeq(ios, 1, k - 1))
        /\ ios[k].range.end = ios[k].range.start + OwnDofs(slots, ios[k].U)

\* the ranges are pairwise disjoint and their union is [0, n)
RangesPartition(ios, n) ==
    /\ \A j, k \in 1..Len(ios) :
          j # k => RangeSet(ios[j].range) \cap RangeSet(ios[k].range) = {}
    /\ UNION {RangeSet(ios[k].range) : k \in 1..Len(ios)} = 0..(n - 1)

\* no output group was selected with outs_with (a transform replaces the
\* group's DOFs by its own rows)
NoTransform == \A k \in 1..Len(dss.outs_transform) : IsNone(dss.outs_transform[k])

\* C1: whenever build succeeds, |u| is the sum of the On DOFs of the selected
\* input groups and |y| the sum of the On DOFs of the selected output groups
\* (stated on the selections made with ins and outs).
C1_SizesAreSelectedDofs ==
    (pc = "solver" /\ NoTransform) =>
        /\ Len(dms.u) = SelectedDofs(fem.inputs, dms.ins)
        /\ Len(dms.y) = SelectedDofs(fem.outputs, dms.outs)

\* C2: after build the descriptor ranges are consecutive half-open intervals
\* in declaration order, each as long as its own group's DOF count, pairwise
\* disjoint, with union [0, |u|) for the inputs and [0, |y|) for the outputs
\* (stated on the selections made with ins and outs).
C2_RangesInDeclarationOrder ==
    (pc = "solver" /\ NoTransform) =>
        /\ DeclarationOrderRanges(fem.inputs, dms.ins)
        /\ RangesPartition(dms.ins, Len(dms.u))
        /\ DeclarationOrderRanges(fem.outputs, dms.outs)
        /\ RangesPartition(dms.outs, Len(dms.y))

-----------------------------------------------------------------------------
(* set and get (C3, C4) *)

\* C3: set::<G>(v) on a selected input group with |v| = |range_of(G)| writes v
\* over u[range_of(G)] and changes no other element of u (nor its length).
C3_SetOverwritesOwnRange ==
    [][\A U \in InputVariants, v \in Payloads :
         (/\ SetU(U, v)
          /\ IsSome(RangeOf(dms.ins, U))
          /\ RangeLen(Unwrap(RangeOf(dms.ins, U))) = Len(v))
         => /\ Len(dms'.u) = Len(dms.u)
            /\ \A i \in 1..Len(dms.u) :
                  dms'.u[i] = IF (i - 1) \in RangeSet(Unwrap(RangeOf(dms.ins, U)))
                              THEN v[i - Unwrap(RangeOf(dms.ins, U)).start]
                              ELSE dms.u[i]]_vars

\* groups A (2 DOFs) and B (3 DOFs) selected in that order, after
\* set::<A>([10, 20]) and set::<B>([1, 2, 3])
C3_Witness ==
    /\ pc = "solver"
    /\ [k \in 1..Len(dms.ins) |-> dms.ins[k].U] = << "OSSM1Lcl6F", "MCM2Lcl6F" >>
    /\ dms.u = << 10, 20, 1, 2, 3 >>

\* C4: in every state after build, set and step, get::<G>() is None exactly
\* when G is not a selected output group and otherwise a copy of
\* y[range_of(G)] of the length of the range; it never panics.
C4_GetReturnsOwnRange ==
    pc = "solver" =>
        \A G \in OutputVariants :
            /\ ~Get(dms, G).panic
            /\ IsNone(Get(dms, G).value) <=> (\A k \in 1..Len(dms.outs) : dms.outs[k].U # G)
            /\ IsSome(Get(dms, G).value) =>
                  /\ Len(Unwrap(Get(dms, G).value)) = RangeLen(Unwrap(RangeOf(dms.outs, G)))
                  /\ \A i \in 1..Len(Unwrap(Get(dms, G).value)) :
                        Unwrap(Get(dms, G).value)[i]
                            = dms.y[Unwrap(RangeOf(dms.outs, G)).start + i]

-----------------------------------------------------------------------------
(* The static gain compensation in a step (C5) *)

\* psi * u of the previous step: zeros before the first step
PreviousPsiTimesU(s) == IF ops.steps = 0 THEN Zeros(Len(s.y)) ELSE s.psi_times_u

\* C5: with psi, every step of the ExponentialMatrix solver, the first one
\* included, sets y[j] to the sum of the modes' contributions plus p[j] for
\* every j in 0..|y|, p being psi*u of the previous step (zeros before the
\* first), and then stores psi*u of the current u.
C5_StepAddsDelayedCompensation ==
    [][(Step /\ dms.solver = "ExponentialMatrix" /\ IsSome(dms.psi_dcg))
         => /\ Len(dms'.y) = Len(dms.y)
            /\ \A j \in 1..Len(dms.y) :
                  dms'.y[j] = ModeSum(Len(dms.y), dms'.state_space)[j]
                              + PreviousPsiTimesU(dms)[j]
            /\ dms'.psi_times_u = MatVec(Unwrap(dms.psi_dcg), dms.u)]_vars

-----------------------------------------------------------------------------
(* Errors of build (C6 - C9) *)

Built == pc \in {"solver", "done"}

\* C6: build on a builder without a sampling rate returns
\* Err(MissingArguments("sampling")) and no solver, whatever else was set.
C6_MissingSamplingIsAnError ==
    (Built /\ IsNone(dss.sampling)) =>
        /\ pc = "done"
        /\ result.kind = "Err"
        /\ result.error = << "MissingArguments", "sampling" >>
        /\ dms = DefaultSolver

\* build was called without a sampling rate on a builder with groups, the
\* static gain compensation and a cut-off frequency set
C6_Witness ==
    /\ Built /\ IsNone(dss.sampling)
    /\ Len(dss.ins) > 0 /\ Len(dss.outs) > 0
    /\ IsSome(dss.n_io) /\ IsSome(dss.max_eigen_frequency)

\* the group of type U is absent from the FEM: no slot that is Some holds it
Absent(slots, U) ==
    \A k \in 1..Len(slots) : IsNone(slots[k]) \/ Unwrap(slots[k]).variant # U

SelectsAbsentGroup ==
    \/ \E k \in 1..Len(dss.ins) : Absent(fem.inputs, dss.ins[k].U)
    \/ \E k \in 1..Len(dss.outs) : Absent(fem.outputs, dss.outs[k].U)

\* C7: build with a selected group that is absent from the FEM returns a
\* typed error (it neither panics nor builds a solver).
C7_AbsentGroupIsAnError ==
    (Built /\ IsSome(dss.sampling) /\ SelectsAbsentGroup) => result.kind = "Err"

\* C8: build with use_static_gain_compensation on a FEM without static gain
\* returns a typed error (it neither panics nor builds a solver).
C8_MissingStaticGainIsAnError ==
    (Built /\ IsSome(dss.sampling) /\ IsSome(dss.n_io) /\ IsNone(fem.static_gain))
        => result.kind = "Err"

\* C9: build without an input group, or without an output group, returns an
\* error, and no solver has an empty u or an empty y.
C9_EmptySelectionIsAnError ==
    /\ (Built /\ (Len(dss.ins) = 0 \/ Len(dss.outs) = 0)) => result.kind = "Err"
    /\ pc = "solver" => (Len(dms.u) > 0 /\ Len(dms.y) > 0)

-----------------------------------------------------------------------------
(* Truncation by max_eigen_frequency (C10) *)

\* mode k (1-based) of the FEM as build discretises it for the builder d
FemMode(f, d, k) ==
    from_second_order(Tau(Unwrap(d.sampling)),
                      PropertiesOf(f, d, n_modes(f)).w[k],
                      PropertiesOf(f, d, n_modes(f)).zeta[k],
                      MatRow(Unwrap(in2mode(f, d, n_modes(f)).mat), k),
                      MatColumn(Unwrap(mode2out(f, d, n_modes(f)).mat), k))

\* the 1-based indices of the FEM modes at or below the cut-off frequency
ModesAtOrBelow(f, d) ==
    {k \in 1..n_modes(f) : f.eigen_frequencies[k] <= Unwrap(d.max_eigen_frequency)}

NonDecreasing(x) == \A k \in 1..(Len(x) - 1) : x[k] <= x[k + 1]

\* a solver built with a cut-off frequency and no Hankel threshold, with
\* inputs and outputs (the b and c of the modes then tell the modes apart)
BuiltWithCutOff ==
    /\ pc = "solver"
    /\ IsSome(dss.max_eigen_frequency)
    /\ IsNone(dss.hankel_singular_values_threshold)
    /\ Len(dms.u) > 0 /\ Len(dms.y) > 0

\* C10 as stated: with max_eigen_frequency f and no Hankel threshold the mode
\* bank consists of exactly the FEM modes whose eigen frequency is <= f,
\* whatever the order of the eigen frequency vector.
C10_BankIsModesAtOrBelow ==
    BuiltWithCutOff =>
        /\ Len(dms.state_space) = Cardinality(ModesAtOrBelow(fem, dss))
        /\ {dms.state_space[i] : i \in 1..Len(dms.state_space)}
             = {FemMode(fem, dss, k) : k \in ModesAtOrBelow(fem, dss)}

\* C10: with max_eigen_frequency f and no Hankel threshold the mode bank is
\* the first n modes of the FEM, in order, n being the number of FEM eigen
\* frequencies <= f; these are exactly the modes with frequency <= f when
\* the eigen frequency vector is non-decreasing.
C10_BankIsFirstModes ==
    BuiltWithCutOff =>
        /\ dms.state_space
             = [k \in 1..Cardinality(ModesAtOrBelow(fem, dss)) |-> FemMode(fem, dss, k)]
        /\ NonDecreasing(fem.eigen_frequencies) =>
             {dms.state_space[i] : i \in 1..Len(dms.state_space)}
               = {FemMode(fem, dss, k) : k \in ModesAtOrBelow(fem, dss)}

\* a bank of two modes cut out of the eigen frequencies 1, 2, 1, 2 Hz at 1 Hz
C10_Witness ==
    /\ BuiltWithCutOff
    /\ fem.eigen_frequencies = << 1, 2, 1, 2 >>
    /\ dss.max_eigen_frequency = Some(1)
    /\ Len(dms.state_space) = 2

-----------------------------------------------------------------------------
(* Truncate: a solver built with a Hankel singular value threshold, with or
   without a cut-off frequency and the static gain compensation, is driven
   with set and next *)

\* Hankel singular value thresholds: the values 1 and 10 are the Hankel
\* singular values of modes of the OSSM1Lcl6F / OSSM1Lcl selection, 64 is
\* above all of them
TruncationThresholds == {1, 10, 64}

InitTruncate == InitWith(EigenFrequencyVectors, {Some(LoadedStaticGain)})

NextTruncate ==
    \/ \E T \in Solvers : From(T)
    \/ \E r \in SamplingRates : Sampling(r)
    \/ UseStaticGainCompensation(LoadedNIo)
    \/ MaxEigenFrequency(1)
    \/ \E t \in TruncationThresholds : TruncateHankelSingularValues(t)
    \/ Ins("OSSM1Lcl6F")
    \/ Outs("OSSM1Lcl")
    \/ Build
    \/ SetU("OSSM1Lcl6F", <<10, 20>>)
    \/ Step

SpecTruncate == InitTruncate /\ [][NextTruncate]_vars

-----------------------------------------------------------------------------
(* Truncation by the Hankel singular value threshold (C11) *)

\* every mode of the FEM as build discretises it for the builder d, from the
\* properties p and the matrices forces_2_modes and modes_2_nodes
FemModesWith(tau, p, forces_2_modes, modes_2_nodes) ==
    [k \in 1..Len(p.w) |->
        from_second_order(tau, p.w[k], p.zeta[k],
                          MatRow(forces_2_modes, k), MatColumn(modes_2_nodes, k))]

FemModes(f, d) ==
    FemModesWith(Tau(Unwrap(d.sampling)), PropertiesOf(f, d, n_modes(f)),
                 Unwrap(in2mode(f, d, n_modes(f)).mat),
                 Unwrap(mode2out(f, d, n_modes(f)).mat))

\* hsv > t for the mode m of frequency w and damping z, with
\* hsv = 0.25 * |b| * |c| / (w * z), w * z > 0 and t >= 0 (both sides squared)
HsvAbove(m, w, z, t) == NormSq(m.b) * NormSq(m.c) > 16 * t * t * w * w * z * z

\* the first n modes whose Hankel singular value is above the threshold t,
\* in the order of the FEM
ModesAbove(modes, p, n, t) ==
    SelectSeq([k \in 1..n |-> k],
              LAMBDA k : HsvAbove(modes[k], p.w[k], p.zeta[k], t))

\* a solver built with a Hankel threshold, with inputs and outputs
BuiltWithThreshold ==
    /\ pc = "solver"
    /\ IsSome(dss.hankel_singular_values_threshold)
    /\ Len(dms.ins) > 0 /\ Len(dms.outs) > 0

\* the bank holds the modes kept, in order, as they stand after build (the
\* states of the modes move with the steps)
BankMatches(bank, modes, kept) ==
    /\ Len(bank) = Len(kept)
    /\ \A i \in 1..Len(bank) :
          [bank[i] EXCEPT !.x = <<0, 0>>, !.y = Zeros(Len(@))] = modes[kept[i]]

BankHolds(bank, modes, p, n, t) == BankMatches(bank, modes, ModesAbove(modes, p, n, t))

\* the bank holds the frequency-retained modes above the threshold
BankIsModesAbove ==
    BankHolds(dms.state_space, FemModes(fem, dss), PropertiesOf(fem, dss, n_modes(fem)),
              CountRetained(fem, dss), Unwrap(dss.hankel_singular_values_threshold))

\* the length of y when built: the end of the last output range
BuiltYLen(s) == s.outs[Len(s.outs)].range.end

\* C11 as stated: with a Hankel threshold t the bank holds exactly the
\* frequency-retained modes with hsv > t, in order, and with an empty bank
\* y is all zeros, with the length it was built with, after every step.
C11_EmptyBankKeepsYZero ==
    BuiltWithThreshold =>
        /\ BankIsModesAbove
        /\ Len(dms.state_space) = 0 => dms.y = Zeros(BuiltYLen(dms))

-----------------------------------------------------------------------------
(* Compensate: a FEM whose first three modes are rigid body modes (0 Hz),
   drive torque and encoder angle groups and the static gain compensation *)

\* inputs2ModalF, [5 modes, n_inputs] row wise
RigidInputs2ModalF ==
    LoadedInputs2ModalF \o << 2, 0, 1, 1, 0, 2, 1 >>

\* modalDisp2Outputs, [n_outputs, 5 modes] row wise
RigidModalDisp2Outputs ==
    << 16,  0, 32, 16, 16,
        0, 16, 16, 32, 32,
       32, 16,  0, 16,  0,
       16, 32, 16,  0, 16,
       48, 16, 32,  0, 32,
        0, 48, 16, 32,  0 >>

RigidBodyFem ==
    [LoadedFem(<<0, 0, 0, 1, 2>>, Some(LoadedStaticGain))
        EXCEPT !.inputs_to_modal_forces = RigidInputs2ModalF,
               !.modal_disp_to_outputs = RigidModalDisp2Outputs]

InitCompensate ==
    /\ pc = "fem"
    /\ fem = RigidBodyFem
    /\ dss = DefaultBuilder("", FALSE)
    /\ dms = DefaultSolver
    /\ result = NoResult
    /\ ops = [fem |-> 0, steps |-> 0]

NextCompensate ==
    \/ \E T \in Solvers : From(T)
    \/ \E r \in SamplingRates : Sampling(r)
    \/ UseStaticGainCompensation(LoadedNIo)
    \/ \E U \in {"OSSAzDriveTorque", "OSSElDriveTorque", "OSSM1Lcl6F"} : Ins(U)
    \/ \E U \in {"OSSAzEncoderAngle", "OSSElEncoderAngle", "OSSM1Lcl"} : Outs(U)
    \/ Build

SpecCompensate == InitCompensate /\ [][NextCompensate]_vars

\* the same FEM with the truncations
NextReduce ==
    \/ \E T \in Solvers : From(T)
    \/ \E r \in SamplingRates : Sampling(r)
    \/ UseStaticGainCompensation(LoadedNIo)
    \/ MaxEigenFrequency(1)
    \/ \E t \in TruncationThresholds : TruncateHankelSingularValues(t)
    \/ \E U \in {"OSSAzDriveTorque", "OSSM1Lcl6F"} : Ins(U)
    \/ Outs("OSSM1Lcl")
    \/ Build

SpecReduce == InitCompensate /\ [][NextReduce]_vars

-----------------------------------------------------------------------------
(* The static gain compensation matrix (C12, C13) *)

\* a solver built with the static gain compensation
BuiltWithPsi == pc = "solver" /\ IsSome(dms.psi_dcg)

\* S: the static gain of the FEM trimmed to the selected inputs and outputs
TrimmedStaticGain(f, d) ==
    Unwrap(reduce2io(f, d, FromRowSlice(Unwrap(d.n_io)[2], Unwrap(d.n_io)[1],
                                        Unwrap(f.static_gain))).mat)

\* D: the dynamic asymptotic gain of the modes 3..n_retained
DynamicGainWith(p, forces_2_modes, modes_2_nodes) ==
    dyn_static_gain(modes_2_nodes, p.w, p.n_modes, forces_2_modes)

DynamicGain(f, d) ==
    DynamicGainWith(properties(f, d),
                    Unwrap(in2mode(f, d, CountRetained(f, d)).mat),
                    Unwrap(mode2out(f, d, CountRetained(f, d)).mat))

\* index i (0-based) lies in the range of a descriptor of the group U
InGroup(ios, U, i) == \E k \in 1..Len(ios) : ios[k].U = U /\ i \in RangeSet(ios[k].range)

\* input i and output j are the drive torque and the encoder angle of the
\* same axis
MatchingDriveEncoder(ins, outs, i, j) ==
    \/ InGroup(ins, "OSSAzDriveTorque", i) /\ InGroup(outs, "OSSAzEncoderAngle", j)
    \/ InGroup(ins, "OSSElDriveTorque", i) /\ InGroup(outs, "OSSElEncoderAngle", j)
    \/ InGroup(ins, "OSSRotDriveTorque", i) /\ InGroup(outs, "OSSRotEncoderAngle", j)

PsiIsMaskedDifference(psi, S, D, ins, outs) ==
    /\ psi.nr = S.nr /\ psi.nc = S.nc
    /\ \A j \in 1..psi.nr : \A i \in 1..psi.nc :
          psi.e[j][i] = IF MatchingDriveEncoder(ins, outs, i - 1, j - 1) THEN 0
                        ELSE S.e[j][i] - D.e[j][i]

\* C12 as stated: psi produced by build is S - D with exactly the matching
\* drive / encoder blocks (azimuth, elevation, rotator) set to zero; every
\* other entry, torque / encoder pairs of different axes included, is
\* (S - D)[j, i].
C12_PsiZeroedOnMatchingAxes ==
    BuiltWithPsi =>
        PsiIsMaskedDifference(Unwrap(dms.psi_dcg), TrimmedStaticGain(fem, dss),
                              DynamicGain(fem, dss), dms.ins, dms.outs)

\* index i (0-based) lies in the range of the first descriptor of one of the
\* groups Us
InFirstOf(ios, Us, i) ==
    \E U \in Us : IsSome(RangeOf(ios, U)) /\ i \in RangeSet(Unwrap(RangeOf(ios, U)))

PsiIsZeroedDifference(psi, S, D, ins, outs) ==
    /\ psi.nr = S.nr /\ psi.nc = S.nc
    /\ \A j \in 1..psi.nr : \A i \in 1..psi.nc :
          psi.e[j][i] =
             IF /\ InFirstOf(ins, {"OSSAzDriveTorque", "OSSElDriveTorque",
                                   "OSSRotDriveTorque"}, i - 1)
                /\ InFirstOf(outs, {"OSSAzEncoderAngle", "OSSElEncoderAngle",
                                    "OSSRotEncoderAngle"}, j - 1)
             THEN 0
             ELSE S.e[j][i] - D.e[j][i]

\* C12: psi produced by build is S - D with every drive torque / encoder
\* angle block set to zero, whether the two are of the same axis or not:
\* psi[j, i] = 0 when input i is in the (first) azimuth, elevation or rotator
\* drive torque range and output j in the (first) azimuth, elevation or
\* rotator encoder angle range, and psi[j, i] = (S - D)[j, i] otherwise.
C12_PsiZeroedOnAllDriveEncoderPairs ==
    BuiltWithPsi =>
        PsiIsZeroedDifference(Unwrap(dms.psi_dcg), TrimmedStaticGain(fem, dss),
                              DynamicGain(fem, dss), dms.ins, dms.outs)

\* the azimuth drive torque and a mirror force group against the elevation
\* encoder: the torque / encoder entry, of different axes, is zero where
\* S - D is 9, the other two are those of S - D
C12_Witness ==
    /\ BuiltWithPsi
    /\ [k \in 1..Len(dms.ins) |-> dms.ins[k].U] = << "OSSAzDriveTorque", "OSSM1Lcl6F" >>
    /\ [k \in 1..Len(dms.outs) |-> dms.outs[k].U] = << "OSSElEncoderAngle" >>
    /\ Unwrap(dms.psi_dcg).e[1][1] = 0
    /\ TrimmedStaticGain(fem, dss).e[1][1] - DynamicGain(fem, dss).e[1][1] = 9
    /\ Unwrap(dms.psi_dcg).e[1][2] # 0

\* the static gain of the modes ks of the bank with a non-zero frequency:
\* the sum of c_k * b_k^T / w_k^2
BankGainOf(forces_2_modes, modes_2_nodes, w, ks) ==
    [nr |-> modes_2_nodes.nr, nc |-> forces_2_modes.nc,
     e |-> [j \in 1..modes_2_nodes.nr |-> [i \in 1..forces_2_modes.nc |->
              SumSeq([q \in 1..Len(ks) |->
                  IF w[ks[q]] = 0 THEN 0
                  ELSE (modes_2_nodes.e[j][ks[q]] * forces_2_modes.e[ks[q]][i])
                         \div (w[ks[q]] * w[ks[q]])])]]]

BankGainWith(d, p, forces_2_modes, modes_2_nodes) ==
    BankGainOf(forces_2_modes, modes_2_nodes, p.w,
               KeptModes(d, forces_2_modes, modes_2_nodes, p.w, p.zeta, p.n_modes))

BankGain(f, d) ==
    BankGainWith(d, properties(f, d),
                 Unwrap(in2mode(f, d, CountRetained(f, d)).mat),
                 Unwrap(mode2out(f, d, CountRetained(f, d)).mat))

\* input i is a drive torque and output j an encoder angle, of any axes
DriveEncoderPair(ins, outs, i, j) ==
    /\ \E U \in {"OSSAzDriveTorque", "OSSElDriveTorque", "OSSRotDriveTorque"} :
          InGroup(ins, U, i)
    /\ \E U \in {"OSSAzEncoderAngle", "OSSElEncoderAngle", "OSSRotEncoderAngle"} :
          InGroup(outs, U, j)

StaticGainRestored(psi, G, S, ins, outs) ==
    \A j \in 1..psi.nr : \A i \in 1..psi.nc :
        DriveEncoderPair(ins, outs, i - 1, j - 1)
        \/ psi.e[j][i] + G.e[j][i] = S.e[j][i]

\* C13: with use_static_gain_compensation, psi plus the sum of
\* c_k * b_k^T / w_k^2 over the modes of the bank with w_k > 0 equals the
\* trimmed static gain S on every entry outside the drive / encoder blocks,
\* for every configuration that builds (with or without a cut-off frequency
\* or a Hankel threshold).
C13_CompensationRestoresStaticGain ==
    BuiltWithPsi =>
        StaticGainRestored(Unwrap(dms.psi_dcg), BankGain(fem, dss),
                           TrimmedStaticGain(fem, dss), dms.ins, dms.outs)

-----------------------------------------------------------------------------
(* RoundTrip: a FEM that names a group, OSSM1Lcl, among its inputs and among
   its outputs, so that the group can be written with set and read with get *)

RoundTripFem ==
    [LoadedFem(<<1, 1, 2, 2>>, Some(LoadedStaticGain))
        EXCEPT !.inputs[3] = Some([variant |-> "OSSM1Lcl",
                                   io |-> <<IOOn(3), IOOn(4)>>])]

\* the values written by set on the group
RoundTripPayloads == { <<10, 20>>, <<0, 0>> }

InitRoundTrip ==
    /\ pc = "fem"
    /\ fem = RoundTripFem
    /\ dss = DefaultBuilder("", FALSE)
    /\ dms = DefaultSolver
    /\ result = NoResult
    /\ ops = [fem |-> 0, steps |-> 0]

NextRoundTrip ==
    \/ \E T \in Solvers : From(T)
    \/ \E r \in SamplingRates : Sampling(r)
    \/ UseStaticGainCompensation(LoadedNIo)
    \/ Ins("OSSM1Lcl")
    \/ Outs("OSSM1Lcl")
    \/ Build
    \/ \E v \in RoundTripPayloads : SetU("OSSM1Lcl", v)
    \/ Step

SpecRoundTrip == InitRoundTrip /\ [][NextRoundTrip]_vars

-----------------------------------------------------------------------------
(* set, steps and get on one group (C14) *)

\* G is the single selected input group and the single selected output group
SingleGroup(s, G) ==
    /\ Len(s.ins) = 1 /\ s.ins[1].U = G
    /\ Len(s.outs) = 1 /\ s.outs[1].U = G

\* the part of u of the group G
OwnInput(s, G) ==
    SubSeq(s.u, Unwrap(RangeOf(s.ins, G)).start + 1, Unwrap(RangeOf(s.ins, G)).end)

\* C14 as stated: for the single selected group G, settable and gettable, of
\* a zero-initialised solver, get::<G>() after set::<G>(v) and any number of
\* steps returns exactly v (v is what set left in u[range_of(G)]: a solver
\* whose u is still all zeros was not written, or was written with zeros).
C14_GetReturnsWhatSetWrote ==
    (pc = "solver" /\ SingleGroup(dms, "OSSM1Lcl")) =>
        /\ ~Get(dms, "OSSM1Lcl").panic
        /\ Get(dms, "OSSM1Lcl").value = Some(OwnInput(dms, "OSSM1Lcl"))

\* C14: for the single selected group G of a zero-initialised solver,
\* set::<G>(v) with |v| = range length leaves v in u[range_of(G)] and no step
\* changes u, so that u[range_of(G)] is exactly v after any number of steps;
\* get::<G>() reads y[range_of(G)], which is all zeros before the first step.
C14_SetValueStaysInU ==
    [][/\ \A v \in RoundTripPayloads :
             (SetU("OSSM1Lcl", v) /\ SingleGroup(dms, "OSSM1Lcl"))
                => /\ OwnInput(dms', "OSSM1Lcl") = v
                   /\ dms'.y = dms.y
       /\ (Step /\ SingleGroup(dms, "OSSM1Lcl")) => dms'.u = dms.u
       /\ (pc' = "solver" /\ ops'.steps = 0 /\ SingleGroup(dms', "OSSM1Lcl"))
             => Get(dms', "OSSM1Lcl").value = Some(<<0, 0>>)]_vars

\* set::<G>([10, 20]) on the single group, then two steps: u still holds
\* [10, 20] and y has moved
C14_Witness ==
    /\ pc = "solver" /\ SingleGroup(dms, "OSSM1Lcl")
    /\ ops.steps > 1
    /\ dms.u = <<10, 20>>
    /\ dms.y # <<0, 0>> /\ Len(dms.y) = 2

-----------------------------------------------------------------------------
(* Drop: groups are switched Off in the FEM, then selected in a builder with
   or without the static gain compensation *)

InitDrop == InitWith({<<1, 1, 2, 2>>}, {Some(LoadedStaticGain)})

NextDrop ==
    \/ \E on \in BOOLEAN, id \in SwitchIds : SwitchInputs(on, id)
    \/ \E on \in BOOLEAN, id \in SwitchIds : SwitchOutputs(on, id)
    \/ From("ExponentialMatrix")
    \/ \E r \in SamplingRates : Sampling(r)
    \/ UseStaticGainCompensation(LoadedNIo)
    \/ \E U \in {"OSSM1Lcl6F", "MCM2Lcl6F"} : Ins(U)
    \/ \E U \in {"OSSM1Lcl", "MCM2Lcl6D"} : Outs(U)
    \/ Build

SpecDrop == InitDrop /\ [][NextDrop]_vars

-----------------------------------------------------------------------------
(* Groups without an enabled DOF (C15) *)

\* the group of type U is present in the FEM with every DOF switched Off
AllOff(slots, U) ==
    \E k \in 1..Len(slots) :
        /\ IsSome(slots[k])
        /\ Unwrap(slots[k]).variant = U
        /\ GroupLen(Unwrap(slots[k])) = 0

\* C15: a selected group all of whose DOFs are switched Off yields None from
\* the per-group sub-matrix query and is dropped from the reduced model:
\* build succeeds, the group has no entries in u (or y) and get::<G>() for
\* it returns None (stated on selections of groups the FEM holds).
C15_AllOffGroupIsDropped ==
    (Built /\ IsSome(dss.sampling) /\ ~SelectsAbsentGroup) =>
        /\ \A k \in 1..Len(dss.ins) :
              AllOff(fem.inputs, dss.ins[k].U) =>
                 /\ IsNone(in2modes(fem, dss.ins[k].U))
                 /\ result.kind = "Ok"
                 /\ RangeLen(dms.ins[k].range) = 0
        /\ \A k \in 1..Len(dss.outs) :
              AllOff(fem.outputs, dss.outs[k].U) =>
                 /\ IsNone(modes2out(fem, dss.outs[k].U))
                 /\ result.kind = "Ok"
                 /\ RangeLen(dms.outs[k].range) = 0
                 /\ IsNone(Get(dms, dss.outs[k].U).value)

-----------------------------------------------------------------------------
(* Switches (C16) *)

\* FEM::in_position::<U> / FEM::out_position::<U>: the 0-based index of the
\* slot that holds the group U, None when no slot holds it
SlotPosition(slots, U) ==
    LET at == {k \in 1..Len(slots) :
                 IsSome(slots[k]) /\ Unwrap(slots[k]).variant = U}
    IN IF at = {} THEN None ELSE Some((CHOOSE k \in at : \A j \in at : k <= j) - 1)

in_position(f, U) == SlotPosition(f.inputs, U)
out_position(f, U) == SlotPosition(f.outputs, U)

\* FEM::switch_input::<U>(switch): the FEM after the call and whether the
\* call returned Some
switch_input(f, on, U) ==
    LET i == in_position(f, U)
    IN IF IsNone(i) THEN [fem |-> f, some |-> FALSE]
       ELSE [fem |-> [f EXCEPT !.inputs = SwitchSlots(f.inputs, on, Some({Unwrap(i)}))],
             some |-> TRUE]

\* FEM::switch_output::<U>(switch)
switch_output(f, on, U) ==
    LET i == out_position(f, U)
    IN IF IsNone(i) THEN [fem |-> f, some |-> FALSE]
       ELSE [fem |-> [f EXCEPT !.outputs = SwitchSlots(f.outputs, on, Some({Unwrap(i)}))],
             some |-> TRUE]

\* FEM::switch_input::<U>(switch)
SwitchInput(on, U) ==
    /\ pc = "fem" /\ ops.fem < MaxFemOps
    /\ fem' = switch_input(fem, on, U).fem
    /\ ops' = [ops EXCEPT !.fem = @ + 1]
    /\ UNCHANGED <<pc, dss, dms, result>>

\* FEM::switch_output::<U>(switch)
SwitchOutput(on, U) ==
    /\ pc = "fem" /\ ops.fem < MaxFemOps
    /\ fem' = switch_output(fem, on, U).fem
    /\ ops' = [ops EXCEPT !.fem = @ + 1]
    /\ UNCHANGED <<pc, dss, dms, result>>

\* sets of slots a previous switch_inputs(Off, Some(ids)) switched Off
OffInputIds == SUBSET (0..3)
OffOutputIds == {{}, {2}, 0..3}

\* the FEM after keep_inputs(keep).switch_inputs(Off, Some(offs)) and the
\* same on the outputs
SwitchedFem(ki, oi, ko, oo) ==
    [LoadedFem(<<1, 1, 2, 2>>, None) EXCEPT
        !.inputs = SwitchSlots(KeepSlots(LoadedInputs, ki), FALSE, Some(oi)),
        !.outputs = SwitchSlots(KeepSlots(LoadedOutputs, ko), FALSE, Some(oo))]

InitSwitch ==
    /\ pc = "fem"
    /\ fem \in {SwitchedFem(ki, oi, ko, oo) :
                  ki \in KeepIds, oi \in OffInputIds,
                  ko \in KeepIds, oo \in OffOutputIds}
    /\ dss = DefaultBuilder("", FALSE)
    /\ dms = DefaultSolver
    /\ result = NoResult
    /\ ops = [fem |-> 0, steps |-> 0]

NextSwitch ==
    \/ \E on \in BOOLEAN, id \in SwitchIds : SwitchInputs(on, id)
    \/ \E on \in BOOLEAN, id \in SwitchIds : SwitchOutputs(on, id)
    \/ \E on \in BOOLEAN, U \in InputVariants : SwitchInput(on, U)
    \/ \E on \in BOOLEAN, U \in OutputVariants : SwitchOutput(on, U)

SpecSwitch == InitSwitch /\ [][NextSwitch]_vars

\* the slots an id addresses: all of them for None
AddressedBy(id, slots) ==
    IF IsNone(id) THEN 0..(Len(slots) - 1) ELSE Unwrap(id)

\* every DOF of each present addressed group is set to on, its indices kept;
\* every other slot is as before
SwitchedTo(old, new, on, id) ==
    /\ Len(new) = Len(old)
    /\ \A k \in 1..Len(old) :
          IF (k - 1) \in AddressedBy(id, old) /\ IsSome(old[k])
          THEN /\ IsSome(new[k])
               /\ Unwrap(new[k]).variant = Unwrap(old[k]).variant
               /\ Len(Unwrap(new[k]).io) = Len(Unwrap(old[k]).io)
               /\ \A i \in 1..Len(Unwrap(old[k]).io) :
                     /\ Unwrap(new[k]).io[i].on = on
                     /\ Unwrap(new[k]).io[i].indices = Unwrap(old[k]).io[i].indices
          ELSE new[k] = old[k]

\* the number of DOFs of the group U, On or Off
DofCount(slots, U) ==
    SumSeq([k \in 1..Len(slots) |->
              IF IsSome(slots[k]) /\ Unwrap(slots[k]).variant = U
              THEN Len(Unwrap(slots[k]).io) ELSE 0])

\* the number of DOFs of all present groups, On or Off
TotalDofCount(slots) ==
    SumSeq([k \in 1..Len(slots) |->
              IF IsSome(slots[k]) THEN Len(Unwrap(slots[k]).io) ELSE 0])

-----------------------------------------------------------------------------
(* Impulse: a FEM with one mode, one input and one output, b = [1] and
   c = [1], built at several sampling rates and driven with 1 or 0 *)

ImpulseFem(ef) ==
    [inputs |-> << Some([variant |-> "OSSM1Lcl6F", io |-> <<IOOn(1)>>]) >>,
     outputs |-> << Some([variant |-> "OSSM1Lcl", io |-> <<IOOn(1)>>]) >>,
     eigen_frequencies |-> << ef >>,
     inputs_to_modal_forces |-> << 1 >>,
     modal_disp_to_outputs |-> << 1 >>,
     proportional_damping_vec |-> << 1 >>,
     static_gain |-> None]

\* eigen frequencies [Hz] of the single mode
ImpulseEigenFrequencies == {0, 1, 2}

\* sampling rates [Hz]: tau is 4 or 2 ticks
ImpulseSamplingRates == {1, 2}

ImpulsePayloads == { <<1>>, <<0>> }

InitImpulse ==
    /\ pc = "fem"
    /\ fem \in {ImpulseFem(ef) : ef \in ImpulseEigenFrequencies}
    /\ dss = DefaultBuilder("", FALSE)
    /\ dms = DefaultSolver
    /\ result = NoResult
    /\ ops = [fem |-> 0, steps |-> 0]

NextImpulse ==
    \/ \E T \in Solvers : From(T)
    \/ \E r \in ImpulseSamplingRates : Sampling(r)
    \/ EigenFrequencies(<< <<0, 0>> >>)
    \/ Ins("OSSM1Lcl6F")
    \/ Outs("OSSM1Lcl")
    \/ Build
    \/ \E v \in ImpulsePayloads : SetU("OSSM1Lcl6F", v)
    \/ Step

SpecImpulse == InitImpulse /\ [][NextImpulse]_vars

\* C17: a mode constructed with omega = 0, by either solver, has exactly
\* Phi = [[1, tau], [0, 1]] and gamma = [tau^2/2, tau], and a zero state until
\* the first step, for every tau > 0.
C17_RigidModeIsDoubleIntegrator ==
    (pc = "solver" /\ Len(dms.state_space) = 1 /\ properties(fem, dss).w[1] = 0) =>
        LET m == dms.state_space[1]
            tau == Tau(Unwrap(dss.sampling))
        IN /\ tau > 0 /\ m.tau = tau
           /\ m.phi = << 1, tau, 0, 1 >>
           /\ 2 * m.gamma[1] = tau * tau
           /\ m.gamma[2] = tau
           /\ ops.steps = 0 => m.x = << 0, 0 >>

\* an Exponential solver built at 1 Hz (tau = 4 ticks) whose only mode has
\* omega = 0 by an override of the eigen frequency
C17_Witness ==
    /\ pc = "solver" /\ Len(dms.state_space) = 1
    /\ dms.solver = "Exponential"
    /\ fem.eigen_frequencies = << 1 >> /\ IsSome(dss.eigen_frequencies)
    /\ properties(fem, dss).w[1] = 0
    /\ dms.state_space[1].gamma = << 8, 4 >>

\* a built ExponentialMatrix solver of one mode with b = [1] and c = [1]
SingleMode(s) ==
    /\ s.solver = "ExponentialMatrix" /\ IsNone(s.psi_dcg)
    /\ Len(s.state_space) = 1
    /\ s.state_space[1].b = << 1 >> /\ s.state_space[1].c = << 1 >>

\* the state of the mode after a first step with u = [1] from a zero state
AfterUnitStep(m) == m.x = m.gamma /\ m.gamma # << 0, 0 >>

\* C18 as stated: for a single ExponentialMatrix mode with b = [1], c = [1]
\* and zero initial state, driven with u = [1] on the first step and u = [0]
\* on the later steps, the output after step 1 is gamma[0] and the output
\* after step 2 is Phi[0,0] * gamma[0].
C18_SecondOutputIsPhi00Gamma0 ==
    [][(Step /\ SingleMode(dms)) =>
          LET m == dms.state_space[1]
          IN /\ (ops.steps = 0 /\ dms.u = <<1>>) => dms'.y = << m.gamma[1] >>
             /\ (ops.steps = 1 /\ AfterUnitStep(m) /\ dms.u = <<0>>)
                   => dms'.y = << m.phi[1] * m.gamma[1] >>]_vars

\* C18: for a single ExponentialMatrix mode with b = [1], c = [1] and zero
\* initial state, driven with u = [1] on the first step and u = [0] on the
\* later steps, the output after step 1 is gamma[0] and the output after
\* step 2 is Phi[0,0] * gamma[0] + Phi[0,1] * gamma[1].
C18_SecondOutputIsFirstRowOfPhiGamma ==
    [][(Step /\ SingleMode(dms)) =>
          LET m == dms.state_space[1]
          IN /\ (ops.steps = 0 /\ dms.u = <<1>>) => dms'.y = << m.gamma[1] >>
             /\ (ops.steps = 1 /\ AfterUnitStep(m) /\ dms.u = <<0>>)
                   => dms'.y = << m.phi[1] * m.gamma[1] + m.phi[2] * m.gamma[2] >>]_vars

\* two steps of a mode with omega = 0 at tau = 2 ticks, u = [1] then u = [0]:
\* x = Phi * gamma = (6, 2) and y = [6], while Phi[0,0] * gamma[0] = 2
C18_Witness ==
    /\ pc = "solver" /\ SingleMode(dms) /\ ops.steps = 2
    /\ dms.u = <<0>>
    /\ dms.state_space[1].phi = << 1, 2, 0, 1 >>
    /\ dms.state_space[1].gamma = << 2, 2 >>
    /\ dms.state_space[1].x = << 6, 2 >>
    /\ dms.y = << 6 >>

-----------------------------------------------------------------------------
(* Fold: the parallel fold and reduce of one step (C20) *)

\* the cuts of the mode bank into the contiguous pieces the parallel fold
\* works on (a cut c separates mode c from mode c + 1), and the pair of
\* adjacent accumulators each stage of the reduce joins: one of three, then
\* one of two, then the last
FoldCuts == SUBSET (1..3)
ReducePicks == {p \in [1..3 -> 0..2] : p[2] <= 1 /\ p[3] = 0}

\* the piece a mode belongs to and the modes of a piece
PieceOf(i, cuts) == 1 + Cardinality({c \in cuts : c < i})
PieceCount(n_mode, cuts) == IF n_mode = 0 THEN 0 ELSE PieceOf(n_mode, cuts)
PieceModes(ys, cuts, p) ==
    SelectSeq([i \in 1..Len(ys) |-> IF PieceOf(i, cuts) = p THEN <<ys[i]>> ELSE <<>>],
              IsSome)

\* fold: each piece starts from n zeros and adds its modes' outputs in turn
Partials(n, ys, cuts) ==
    [p \in 1..PieceCount(Len(ys), cuts) |->
        FoldModes(Zeros(n), [i \in 1..Len(PieceModes(ys, cuts, p)) |->
                                Unwrap(PieceModes(ys, cuts, p)[i])])]

\* the reduce operator that drops the right accumulator
ReducePair_KeepsLeft(a, b) == a
\* the reduce operator: a[i] += b[i] over the common prefix (zip)
ReducePair(a, b) ==
    [i \in 1..Len(a) |-> IF i <= Len(b) THEN a[i] + b[i] ELSE a[i]]

\* reduce: n zeros for no accumulator, else adjacent accumulators are joined,
\* one pair per stage, until one is left
RECURSIVE ReduceParts(_, _, _, _)
ReduceParts(n, parts, picks, stage) ==
    IF Len(parts) = 0 THEN Zeros(n)
    ELSE IF Len(parts) = 1 THEN parts[1]
    ELSE LET p == (picks[stage] % (Len(parts) - 1)) + 1
         IN ReduceParts(n,
                        [i \in 1..(Len(parts) - 1) |->
                            IF i < p THEN parts[i]
                            ELSE IF i = p THEN ReducePair(parts[p], parts[p + 1])
                            ELSE parts[i + 1]],
                        picks, stage + 1)

\* Iterator::next with the fold cut at cuts and the reduce joining at picks
par_next(s, cuts, picks) ==
    LET modes == [k \in 1..Len(s.state_space) |->
                    solve(s.solver, s.state_space[k], s.u)]
        y == ReduceParts(Len(s.y),
                         Partials(Len(s.y), [k \in 1..Len(modes) |-> modes[k].y], cuts),
                         picks, 1)
    IN IF s.solver = "ExponentialMatrix" /\ IsSome(s.psi_dcg)
       THEN [s EXCEPT !.state_space = modes,
                      !.y = ZipAdd(y, s.psi_times_u),
                      !.psi_times_u = MatVec(Unwrap(s.psi_dcg), s.u)]
       ELSE [s EXCEPT !.state_space = modes, !.y = y]

\* solver.next(), the fold and the reduce scheduled as cuts and picks say
ParStep(cuts, picks) ==
    /\ pc = "solver" /\ ops.steps < MaxSteps
    /\ dms' = par_next(dms, cuts, picks)
    /\ ops' = [ops EXCEPT !.steps = @ + 1]
    /\ UNCHANGED <<pc, fem, dss, result>>

NextFold ==
    \/ \E T \in Solvers : From(T)
    \/ \E r \in SamplingRates : Sampling(r)
    \/ \E m \in {1, 2} : MaxEigenFrequency(m)
    \/ \E U \in {"OSSM1Lcl6F", "MCM2Lcl6F"} : Ins(U)
    \/ \E U \in {"OSSM1Lcl", "MCM2Lcl6D"} : Outs(U)
    \/ Build
    \/ SetU("OSSM1Lcl6F", <<10, 20>>)
    \/ \E cuts \in FoldCuts, picks \in ReducePicks : ParStep(cuts, picks)

SpecFold == InitWith({<<1, 1, 2, 2>>}, {None}) /\ [][NextFold]_vars

\* the first state variable a mode's solve writes to its output: the one
\* before the update for Exponential, the updated one for ExponentialMatrix
OutputState(T, before, after) ==
    IF T = "ExponentialMatrix" THEN after.x[1] ELSE before.x[1]

\* C20: without psi, one step steps every mode of the bank exactly once with
\* the same u and sets y[j] to the sum over all modes k of c_k[j] * x_k[0]
\* (x_k the state the mode's solve reads its output from); the result is the
\* same for every way the parallel fold partitions the modes and every order
\* in which the partial accumulators are reduced: it is that of the
\* sequential fold.
C20_StepSumsEveryModeOnce ==
    [][(ops'.steps = ops.steps + 1 /\ IsNone(dms.psi_dcg)) =>
          /\ Len(dms'.state_space) = Len(dms.state_space)
          /\ \A k \in 1..Len(dms.state_space) :
                LET m == dms.state_space[k]
                    v == Dot(m.b, dms.u)
                IN /\ dms'.state_space[k].x[1] =
                         m.phi[1] * m.x[1] + m.phi[2] * m.x[2] + m.gamma[1] * v
                   /\ dms'.state_space[k].x[2] =
                         m.phi[3] * m.x[1] + m.phi[4] * m.x[2] + m.gamma[2] * v
          /\ Len(dms'.y) = Len(dms.y)
          /\ \A j \in 1..Len(dms.y) :
                dms'.y[j] =
                    SumSeq([k \in 1..Len(dms.state_space) |->
                              dms.state_space[k].c[j]
                              * OutputState(dms.solver, dms.state_space[k],
                                            dms'.state_space[k])])
          /\ dms'.y = next(dms).y
          /\ dms'.u = dms.u
      ]_vars

\* a second step of a bank of four modes with u set: y holds a sum in which
\* the modes differ
C20_Witness ==
    /\ pc = "solver" /\ ops.steps = 2 /\ IsNone(dms.psi_dcg)
    /\ Len(dms.state_space) = 4
    /\ dms.u = <<10, 20>>
    /\ \E j \in 1..Len(dms.y) : dms.y[j] # 0
    /\ \E k \in 1..4 : dms.state_space[k].x # dms.state_space[1].x

-----------------------------------------------------------------------------
(* The mode step and the frame of a solver step (C21, C22) *)

\* C21: a mode step (ExponentialMatrix::solve) computes v = b.u, updates the
\* state x <- Phi*x + gamma*v and only then sets the output to c * x[0] of the
\* updated state, so that the input applied in a step already influences the
\* output of that same step.
C21_OutputFromUpdatedState ==
    [][(Step /\ dms.solver = "ExponentialMatrix") =>
          \A k \in 1..Len(dms.state_space) :
             LET m == dms.state_space[k]
                 v == SumSeq([i \in 1..Min(Len(m.b), Len(dms.u)) |-> m.b[i] * dms.u[i]])
                 x0 == m.phi[1] * m.x[1] + m.phi[2] * m.x[2] + m.gamma[1] * v
                 x1 == m.phi[3] * m.x[1] + m.phi[4] * m.x[2] + m.gamma[2] * v
             IN /\ dms'.state_space[k].x = << x0, x1 >>
                /\ dms'.state_space[k].y = [i \in 1..Len(m.c) |-> m.c[i] * x0]
      ]_vars

\* the first step of an ExponentialMatrix solver with u set: a mode that was
\* at rest already shows the input in its output
C21_Witness ==
    /\ pc = "solver" /\ dms.solver = "ExponentialMatrix" /\ ops.steps = 1
    /\ dms.u = <<10, 20>>
    /\ \E k \in 1..Len(dms.state_space) :
          /\ dms.state_space[k].x[1] # 0
          /\ \E i \in 1..Len(dms.state_space[k].y) : dms.state_space[k].y[i] # 0

\* what a step leaves alone in a mode
SameMode(m, n) ==
    /\ n.tau = m.tau /\ n.phi = m.phi /\ n.gamma = m.gamma
    /\ n.b = m.b /\ n.c = m.c

\* C22: a solver step changes only y, each mode's own state x and scratch
\* output, and the stored psi*u buffer: u, psi, every mode's Phi, gamma, b and
\* c, the number of modes and every group descriptor range are the same
\* before and after any step.
C22_StepFrame ==
    [][Step =>
          /\ dms'.u = dms.u
          /\ dms'.psi_dcg = dms.psi_dcg
          /\ Len(dms'.state_space) = Len(dms.state_space)
          /\ \A k \in 1..Len(dms.state_space) :
                SameMode(dms.state_space[k], dms'.state_space[k])
          /\ dms'.ins = dms.ins /\ dms'.outs = dms.outs
          /\ dms'.solver = dms.solver /\ dms'.y_sizes = dms.y_sizes
          /\ UNCHANGED <<pc, fem, dss, result>>
      ]_vars

\* two steps of a solver with psi and u set: y, the modes' states and the
\* stored psi*u have moved
C22_Witness ==
    /\ pc = "solver" /\ ops.steps = 2 /\ IsSome(dms.psi_dcg)
    /\ dms.solver = "ExponentialMatrix"
    /\ dms.u # Zeros(Len(dms.u))
    /\ Len(dms.psi_times_u) > 0
    /\ \E k \in 1..Len(dms.state_space) : dms.state_space[k].x # <<0, 0>>

-----------------------------------------------------------------------------
(* Eigen frequency overrides (C23) *)

\* the FEM whose eigen frequencies [Hz] are those of f with the values of the
\* list (i, v) written over them, in order
RECURSIVE OverriddenFrequencies(_, _)
OverriddenFrequencies(ef, list) ==
    IF Len(list) = 0 THEN ef
    ELSE OverriddenFrequencies([ef EXCEPT ![Head(list)[1] + 1] = Head(list)[2]],
                               Tail(list))

OverriddenFem(f, list) ==
    [f EXCEPT !.eigen_frequencies = OverriddenFrequencies(f.eigen_frequencies, list)]

SameBuild(r) ==
    /\ r.kind = result.kind /\ r.error = result.error /\ r.panic = result.panic
    /\ r.dms = dms

\* C23: building with an eigen frequency override (i, v) is equivalent to
\* building from a FEM whose i-th eigen frequency was v Hz in the first place:
\* the same modes are retained by max_eigen_frequency and the mode i is
\* discretized with omega = 2*pi*v.
C23_OverrideIsAnotherFem ==
    (Built /\ IsSome(dss.eigen_frequencies) /\ OverridesInBounds(fem, dss)) =>
        SameBuild(build(OverriddenFem(fem, Unwrap(dss.eigen_frequencies)),
                        [dss EXCEPT !.eigen_frequencies = None]))

-----------------------------------------------------------------------------
(* Query: the per-group queries on a FEM with filtered groups (C24) *)

\* filter_inputs_by / filter_outputs_by (id, pred): every IO of a present
\* slot of id is switched Off, then On again when pred holds of it; pred is
\* given as the set of the global indices it accepts
FilterGroup(g, pred) ==
    [g EXCEPT !.io = [i \in 1..Len(g.io) |->
                        [g.io[i] EXCEPT !.on = (g.io[i].indices[1] \in pred)]]]

FilterSlots(slots, id, pred) ==
    [k \in 1..Len(slots) |->
        IF (k - 1) \in id /\ IsSome(slots[k])
        THEN Some(FilterGroup(Unwrap(slots[k]), pred))
        ELSE slots[k]]

\* FEM::filter_inputs_by(id, pred)
FilterInputsBy(id, pred) ==
    /\ pc = "fem" /\ ops.fem < MaxFemOps
    /\ fem' = [fem EXCEPT !.inputs = FilterSlots(fem.inputs, id, pred)]
    /\ ops' = [ops EXCEPT !.fem = @ + 1]
    /\ UNCHANGED <<pc, dss, dms, result>>

\* FEM::filter_outputs_by(id, pred)
FilterOutputsBy(id, pred) ==
    /\ pc = "fem" /\ ops.fem < MaxFemOps
    /\ fem' = [fem EXCEPT !.outputs = FilterSlots(fem.outputs, id, pred)]
    /\ ops' = [ops EXCEPT !.fem = @ + 1]
    /\ UNCHANGED <<pc, dss, dms, result>>

\* the id lists and the predicates of the filters
FilterIds == {{k} : k \in 0..3} \cup {0..3}
FilterPreds == SUBSET (1..7)

NextQuery ==
    \/ \E id \in FilterIds, pred \in FilterPreds : FilterInputsBy(id, pred)
    \/ \E id \in FilterIds, pred \in FilterPreds : FilterOutputsBy(id, pred)
    \/ \E id \in KeepIds : KeepInputs(id)
    \/ \E id \in KeepIds : KeepOutputs(id)

SpecQuery == InitWith({<<1, 1, 2, 2>>}, {None}) /\ [][NextQuery]_vars

\* the place of the i-th DOF of a group among its On DOFs
OnRank(g, i) == Cardinality({p \in 1..i : g.io[p].on})

\* the answer x of a query for the group g is an nr x nc matrix whose line
\* OnRank(g, i) is the line (global index of i) of the full matrix, for every
\* On DOF i of g, and which has no other line
PicksOwnColumns(g, x, full) ==
    /\ IsSome(x)
    /\ Len(Unwrap(x)) = full.nr * GroupLen(g)
    /\ \A i \in 1..Len(g.io) :
          g.io[i].on =>
             MatColumn(FromRowSlice(full.nr, GroupLen(g), Unwrap(x)), OnRank(g, i))
                = MatColumn(full, g.io[i].indices[1])

PicksOwnRows(g, x, full) ==
    /\ IsSome(x)
    /\ Len(Unwrap(x)) = GroupLen(g) * full.nc
    /\ \A i \in 1..Len(g.io) :
          g.io[i].on =>
             MatRow(FromRowSlice(GroupLen(g), full.nc, Unwrap(x)), OnRank(g, i))
                = MatRow(full, g.io[i].indices[1])

\* C24: the query for the input group G of a slot returns an N_modes x
\* (number of On DOFs of G) matrix whose j-th column is the column
\* (index_j - 1) of the full inputs-to-modes matrix, index_j being the
\* 1-based global index of the j-th On DOF of G in the group's order; the
\* indices of the Off DOFs give no column (and the same with rows of the
\* modes-to-outputs matrix for an output group).
C24_QueryPicksOnDofs ==
    /\ \A k \in 1..Len(fem.inputs) :
          IsSome(fem.inputs[k]) =>
             PicksOwnColumns(Unwrap(fem.inputs[k]), input2modes(fem, k - 1),
                             FromRowSlice(n_modes(fem),
                                          Len(fem.inputs_to_modal_forces) \div n_modes(fem),
                                          fem.inputs_to_modal_forces))
    /\ \A k \in 1..Len(fem.outputs) :
          IsSome(fem.outputs[k]) =>
             PicksOwnRows(Unwrap(fem.outputs[k]), modes2output(fem, k - 1),
                          FromRowSlice(Len(fem.modal_disp_to_outputs) \div n_modes(fem),
                                       n_modes(fem), fem.modal_disp_to_outputs))

\* MCM2Lcl6F filtered down to its first and third DOF: the query returns the
\* columns 5 and 7 of the inputs-to-modes matrix
C24_Witness ==
    /\ ops.fem = 1
    /\ IsSome(fem.inputs[4])
    /\ OnIndices(Unwrap(fem.inputs[4])) = <<5, 7>>
    /\ input2modes(fem, 3) = Some(<<0, 2, 1, 1, 2, 0, 1, 1>>)

-----------------------------------------------------------------------------
(* The length of y (C25) *)

\* C25: in every state reachable from a successful build by set and step
\* calls, with or without psi, the length of y is the one it had after build
\* (the end of the last output range) and every output descriptor range lies
\* within y.
C25_YKeepsItsLength ==
    (pc = "solver" /\ Len(dms.outs) > 0) =>
        /\ Len(dms.y) = BuiltYLen(dms)
        /\ \A k \in 1..Len(dms.outs) :
              /\ 0 <= dms.outs[k].range.start
              /\ dms.outs[k].range.end <= Len(dms.y)

-----------------------------------------------------------------------------
(* The typed lookups (C26) *)

\* C26: for a group type G present in the FEM the typed lookups
\* (in2modes::<G>, modes2out::<G>, and trim2in / trim2out through the same
\* position) address G's own slot of fem.inputs / fem.outputs in every
\* reachable FEM state, in particular after keep_inputs / keep_outputs has
\* set other, earlier slots to None.
C26_TypedLookupFindsOwnSlot ==
    /\ \A k \in 1..Len(fem.inputs) :
          IsSome(fem.inputs[k]) =>
             /\ position(fem.inputs, Unwrap(fem.inputs[k]).variant) = Some(k - 1)
             /\ in2modes(fem, Unwrap(fem.inputs[k]).variant) = input2modes(fem, k - 1)
    /\ \A k \in 1..Len(fem.outputs) :
          IsSome(fem.outputs[k]) =>
             /\ position(fem.outputs, Unwrap(fem.outputs[k]).variant) = Some(k - 1)
             /\ modes2out(fem, Unwrap(fem.outputs[k]).variant) = modes2output(fem, k - 1)

-----------------------------------------------------------------------------
(* The compensation in both solvers (C27): u is set before the first step
   only, so that the u of the previous step is the u of the solver *)

NextDelay ==
    \/ \E T \in Solvers : From(T)
    \/ \E r \in SamplingRates : Sampling(r)
    \/ UseStaticGainCompensation(LoadedNIo)
    \/ \E U \in {"OSSM1Lcl6F", "MCM2Lcl6F"} : Ins(U)
    \/ \E U \in {"OSSM1Lcl", "MCM2Lcl6D"} : Outs(U)
    \/ Build
    \/ \E U \in {"OSSM1Lcl6F", "MCM2Lcl6F"}, v \in Payloads :
          ops.steps = 0 /\ SetU(U, v)
    \/ Step

SpecDelay == InitRun /\ [][NextDelay]_vars

\* psi * u of the previous step when u is held: zeros before the first step
DelayedPsiTimesU(s) ==
    IF ops.steps = 0 THEN Zeros(Len(s.y)) ELSE MatVec(Unwrap(s.psi_dcg), s.u)

\* C27: a solver of either variant, Exponential or ExponentialMatrix, built
\* with use_static_gain_compensation adds the delayed correction on every
\* step: y is the sum of the modes' outputs plus psi * u of the previous step.
C27_BothSolversAddPsiTimesU ==
    [][(Step /\ IsSome(dms.psi_dcg))
         => /\ Len(dms'.y) = Len(dms.y)
            /\ \A j \in 1..Len(dms.y) :
                  dms'.y[j] = ModeSum(Len(dms.y), dms'.state_space)[j]
                              + DelayedPsiTimesU(dms)[j]]_vars

-----------------------------------------------------------------------------
(* The two realisations side by side (C28): one mode of each solver, built
   by from_second_order from the same arguments and stepped with the same u;
   dms holds the pair *)

PairOmegas == {0, 1, 2}

PairInputMaps == { <<1>>, <<2, 1>> }

PairOutputMaps == { <<1>>, <<1, 3>> }

PairInputs == { <<0>>, <<1>>, <<3>>, <<1, 2>> }

InitPair ==
    /\ pc = "modes"
    /\ fem = LoadedFem(<<1, 1, 2, 2>>, None)
    /\ dss = DefaultBuilder("", FALSE)
    /\ dms \in {[matrix |-> from_second_order(Tau(r), w, 1, b, c),
                 exponential |-> from_second_order(Tau(r), w, 1, b, c)] :
                    r \in ImpulseSamplingRates, w \in PairOmegas,
                    b \in PairInputMaps, c \in PairOutputMaps}
    /\ result = NoResult
    /\ ops = [fem |-> 0, steps |-> 0]

\* matrix.solve(u) and exponential.solve(u) with the same u
SolveBoth(u) ==
    /\ pc = "modes" /\ ops.steps < MaxSteps + 1
    /\ dms' = [matrix |-> ExponentialMatrix_solve(dms.matrix, u),
               exponential |-> Exponential_solve(dms.exponential, u)]
    /\ ops' = [ops EXCEPT !.steps = @ + 1]
    /\ UNCHANGED <<pc, fem, dss, result>>

NextPair == \E u \in PairInputs : SolveBoth(u)

SpecPair == InitPair /\ [][NextPair]_vars

\* C28: with equal Phi, gamma, b, c, a zero initial state and the same input
\* sequence, the output the Exponential mode returns at step k + 1 is the
\* output the ExponentialMatrix mode returned at step k, for every k >= 1,
\* and the two modes hold the same state x after every step.
C28_OneSampleOfDelay ==
    [][(ops'.steps = ops.steps + 1)
         => /\ dms'.matrix.x = dms'.exponential.x
            /\ (ops.steps >= 1 => dms'.exponential.y = dms.matrix.y)]_vars

\* two steps were taken, the Exponential mode returns a non-zero output, and
\* the ExponentialMatrix mode is already one sample ahead of it
C28_Witness ==
    /\ pc = "modes" /\ ops.steps = 2
    /\ dms.exponential.y # Zeros(Len(dms.exponential.y))
    /\ dms.matrix.y # dms.exponential.y
    /\ dms.matrix.x = dms.exponential.x

-----------------------------------------------------------------------------
(* The compensation with fewer than three modes (C29) *)

\* C29: build with use_static_gain_compensation, when fewer than 3 modes are
\* retained (the FEM is that small, or max_eigen_frequency leaves that few),
\* returns a typed error: it ends with Err and it does not panic on the
\* exclusion of the first three modes.
C29_FewModesIsATypedError ==
    (/\ Built /\ IsSome(dss.sampling) /\ IsSome(dss.n_io) /\ IsSome(fem.static_gain)
     /\ Len(dss.ins) > 0 /\ Len(dss.outs) > 0
     /\ CountRetained(fem, dss) \in 1..(RigidBodyModes - 1))
        => (result.kind = "Err" /\ result.panic = "")

-----------------------------------------------------------------------------
(* Switching by name (C30) *)

\* the names of the FEM groups, Name::variant being the type of a name:
\* the name is split at "_" and the first letter of every part is upper-cased
InputNames ==
    { <<"OSS_AzDrive_Torque", "OSSAzDriveTorque">>,
      <<"OSS_ElDrive_Torque", "OSSElDriveTorque">>,
      <<"OSS_M1_lcl_6F", "OSSM1Lcl6F">>,
      <<"MC_M2_lcl_6F", "MCM2Lcl6F">> }
OutputNames ==
    { <<"OSS_AzEncoder_Angle", "OSSAzEncoderAngle">>,
      <<"OSS_ElEncoder_Angle", "OSSElEncoderAngle">>,
      <<"OSS_M1_lcl", "OSSM1Lcl">>,
      <<"MC_M2_lcl_6D", "MCM2Lcl6D">> }

\* Box<dyn GetIn / GetOut>::try_from(name): the type of the arm that matches
\* the name, None for Err(FemError::Convert(name))
try_from(table, name) ==
    IF \E p \in table : p[1] = name
    THEN Some((CHOOSE p \in table : p[1] = name)[2])
    ELSE None

\* the loop of switch_inputs_by_name / switch_outputs_by_name over slots:
\* every name is converted and its slot is switched in turn; the first name
\* that does not convert returns the error, with the slots as the names
\* before it left them
switch_by_name(table, slots, names, on) ==
    LET RECURSIVE Loop(_, _)
        Loop(s, k) ==
            IF k > Len(names) THEN [slots |-> s, error |-> None]
            ELSE LET x == try_from(table, names[k])
                 IN IF IsNone(x)
                    THEN [slots |-> s, error |-> Some(<<"Convert", names[k]>>)]
                    ELSE LET i == SlotPosition(s, Unwrap(x))
                         IN IF IsNone(i) THEN Loop(s, k + 1)
                            ELSE Loop(SwitchSlots(s, on, Some({Unwrap(i)})), k + 1)
    IN Loop(slots, 1)

ResultOf(r) ==
    IF IsNone(r.error) THEN [kind |-> "Ok", error |-> <<>>, panic |-> ""]
    ELSE [kind |-> "Err", error |-> Unwrap(r.error), panic |-> ""]

\* FEM::switch_inputs_by_name(names, switch)
SwitchInputsByName(names, on) ==
    /\ pc = "fem" /\ ops.fem < MaxFemOps
    /\ LET r == switch_by_name(InputNames, fem.inputs, names, on)
       IN /\ fem' = [fem EXCEPT !.inputs = r.slots]
          /\ result' = ResultOf(r)
    /\ ops' = [ops EXCEPT !.fem = @ + 1]
    /\ UNCHANGED <<pc, dss, dms>>

\* FEM::switch_outputs_by_name(names, switch)
SwitchOutputsByName(names, on) ==
    /\ pc = "fem" /\ ops.fem < MaxFemOps
    /\ LET r == switch_by_name(OutputNames, fem.outputs, names, on)
       IN /\ fem' = [fem EXCEPT !.outputs = r.slots]
          /\ result' = ResultOf(r)
    /\ ops' = [ops EXCEPT !.fem = @ + 1]
    /\ UNCHANGED <<pc, dss, dms>>

\* lists of at most two names: two groups of the FEM and a name of no group
InputNameLists ==
    LET N == {"OSS_M1_lcl_6F", "MC_M2_lcl_6F", "OSS_M1_lcl_6D"}
    IN {<<>>} \cup {<<a>> : a \in N} \cup {<<a, b>> : a \in N, b \in N}
OutputNameLists ==
    LET N == {"OSS_M1_lcl", "MC_M2_lcl_6D", "MC_M2_lcl_6F"}
    IN {<<>>} \cup {<<a>> : a \in N} \cup {<<a, b>> : a \in N, b \in N}

InitByName ==
    /\ pc = "fem"
    /\ fem \in {SwitchedFem(0..3, oi, 0..3, oo) :
                  oi \in OffInputIds, oo \in OffOutputIds}
    /\ dss = DefaultBuilder("", FALSE)
    /\ dms = DefaultSolver
    /\ result = NoResult
    /\ ops = [fem |-> 0, steps |-> 0]

NextByName ==
    \/ \E names \in InputNameLists, on \in BOOLEAN : SwitchInputsByName(names, on)
    \/ \E names \in OutputNameLists, on \in BOOLEAN : SwitchOutputsByName(names, on)

SpecByName == InitByName /\ [][NextByName]_vars

\* the slots with exactly the groups of the named types switched
NamedSwitched(table, slots, names, on) ==
    [k \in 1..Len(slots) |->
        IF /\ IsSome(slots[k])
           /\ \E j \in 1..Len(names) :
                 try_from(table, names[j]) = Some(Unwrap(slots[k]).variant)
        THEN Some(SwitchGroup(Unwrap(slots[k]), on))
        ELSE slots[k]]

AllKnown(table, names) ==
    \A j \in 1..Len(names) : IsSome(try_from(table, names[j]))

\* C30: switch_inputs_by_name / switch_outputs_by_name with a list that holds
\* a name of no group returns Err and leaves the On/Off state of the FEM as
\* it was, wherever the unknown name sits in the list; with known names only
\* it returns Ok and switches exactly the named groups.
C30_ByNameIsAllOrNothing ==
    [][/\ \A names \in InputNameLists, on \in BOOLEAN :
             SwitchInputsByName(names, on) =>
                IF AllKnown(InputNames, names)
                THEN /\ result'.kind = "Ok"
                     /\ fem'.inputs = NamedSwitched(InputNames, fem.inputs, names, on)
                     /\ fem'.outputs = fem.outputs
                ELSE result'.kind = "Err" /\ fem' = fem
       /\ \A names \in OutputNameLists, on \in BOOLEAN :
             SwitchOutputsByName(names, on) =>
                IF AllKnown(OutputNames, names)
                THEN /\ result'.kind = "Ok"
                     /\ fem'.outputs = NamedSwitched(OutputNames, fem.outputs, names, on)
                     /\ fem'.inputs = fem.inputs
                ELSE result'.kind = "Err" /\ fem' = fem]_vars

====
